---- MODULE Spec2Model ----
(***************************************************************************)
(* A model of weather-gpt-app: the weather route (POST /api/weather, in    *)
(* its two sibling versions), the suggestion route (GET /api/suggest) and  *)
(* the page that calls them.  Strings the code inspects are sequences of   *)
(* one-character strings, so that trimming, case conversion and the        *)
(* regular expressions are computed and not assumed.                       *)
(***************************************************************************)
EXTENDS Integers, Sequences, FiniteSets, TLC

(***************************************************************************)
(* Bounds of the model.                                                    *)
(***************************************************************************)
\* number of weather requests a behaviour handles
NumWeatherReq == 2
\* number of suggestion requests a behaviour handles
NumSuggestReq == 2
\* number of times the clock advances in a behaviour
MaxTicks == 1

(***************************************************************************)
(* Strings.                                                                *)
(***************************************************************************)
UpperLetters ==
  << "A","B","C","D","E","F","G","H","I","J","K","L","M",
     "N","O","P","Q","R","S","T","U","V","W","X","Y","Z" >>

LowerLetters ==
  << "a","b","c","d","e","f","g","h","i","j","k","l","m",
     "n","o","p","q","r","s","t","u","v","w","x","y","z" >>

Digits == { "0","1","2","3","4","5","6","7","8","9" }

\* the characters \s matches among those the model uses
Whitespace == { " ", "\t", "\n" }

Range(f) == { f[i] : i \in DOMAIN f }

IsUpper(c) == c \in Range(UpperLetters)

IsLower(c) == c \in Range(LowerLetters)

IndexIn(c, letters) == CHOOSE i \in DOMAIN letters : letters[i] = c

toUpperCaseChar(c) == IF IsLower(c) THEN UpperLetters[IndexIn(c, LowerLetters)] ELSE c

toLowerCaseChar(c) == IF IsUpper(c) THEN LowerLetters[IndexIn(c, UpperLetters)] ELSE c

\* String.prototype.toUpperCase
toUpperCase(s) == [ i \in DOMAIN s |-> toUpperCaseChar(s[i]) ]

\* String.prototype.toLowerCase
toLowerCase(s) == [ i \in DOMAIN s |-> toLowerCaseChar(s[i]) ]

RECURSIVE trimStart(_)
trimStart(s) ==
  IF s # << >> /\ Head(s) \in Whitespace THEN trimStart(Tail(s)) ELSE s

RECURSIVE trimEnd(_)
trimEnd(s) ==
  IF s # << >> /\ s[Len(s)] \in Whitespace
  THEN trimEnd(SubSeq(s, 1, Len(s) - 1)) ELSE s

\* String.prototype.trim
trim(s) == trimEnd(trimStart(s))

\* /^\d{5}$/.test(s)
IsFiveDigits(s) == Len(s) = 5 /\ \A i \in 1..5 : s[i] \in Digits

(***************************************************************************)
(* JSON values of a request body.                                          *)
(***************************************************************************)
Undefined == [ t |-> "undefined" ]

Null == [ t |-> "null" ]

Str(s) == [ t |-> "string", s |-> s ]

Num(n) == [ t |-> "number", n |-> n ]

\* Truthy as a test for presence only: `v != null`, the empty string counts
Present(v) == v.t \in { "string", "number" }

\* JavaScript truthiness, as `body.zip && !body.city` uses it
Truthy(v) ==
  CASE v.t = "string" -> v.s # << >>
    [] v.t = "number" -> v.n # 0
    [] OTHER -> FALSE

(***************************************************************************)
(* Weather route: validation.                                              *)
(***************************************************************************)
US_STATES ==
  { <<"A","L">>, <<"A","K">>, <<"A","Z">>, <<"A","R">>, <<"C","A">>,
    <<"C","O">>, <<"C","T">>, <<"D","E">>, <<"F","L">>, <<"G","A">>,
    <<"H","I">>, <<"I","D">>, <<"I","L">>, <<"I","N">>, <<"I","A">>,
    <<"K","S">>, <<"K","Y">>, <<"L","A">>, <<"M","E">>, <<"M","D">>,
    <<"M","A">>, <<"M","I">>, <<"M","N">>, <<"M","S">>, <<"M","O">>,
    <<"M","T">>, <<"N","E">>, <<"N","V">>, <<"N","H">>, <<"N","J">>,
    <<"N","M">>, <<"N","Y">>, <<"N","C">>, <<"N","D">>, <<"O","H">>,
    <<"O","K">>, <<"O","R">>, <<"P","A">>, <<"R","I">>, <<"S","C">>,
    <<"S","D">>, <<"T","N">>, <<"T","X">>, <<"U","T">>, <<"V","T">>,
    <<"V","A">>, <<"W","A">>, <<"W","V">>, <<"W","I">>, <<"W","Y">>,
    <<"D","C">> }

\* the credential value the route treats as not configured
PLACEHOLDER_KEY == "your_openrouter_api_key_here"

\* CACHE_TTL of the weather route, in milliseconds
WEATHER_CACHE_TTL == 15 * 60 * 1000

VARIABLES
  impl,          \* which sibling version of the weather route is deployed
  apiKey,        \* process.env.OPENROUTER_API_KEY
  now,           \* Date.now()
  ticks,         \* how often the clock has advanced
  weatherCache,  \* the weather route's cache: key -> [data, timestamp]
  wreq,          \* the weather requests: slot -> request record
  suggestCache,  \* the suggestion route's cache: key -> [data, timestamp]
  sreq,          \* the suggestion requests: slot -> request record
  page,          \* the state of the Home component
  timers,        \* the page's pending timeouts: a set of [id, value]
  debounceRef,   \* debounceRef.current: the id of the latest timeout, or 0
  abortRef,      \* the page's latest AbortController: the slot of its fetch, or 0
  gets,          \* the page's fetches of /api/suggest: slot -> [state, q]
  posts          \* the page's fetches of /api/weather: slot -> [state, body]

vars ==
  << impl, apiKey, now, ticks, weatherCache, wreq, suggestCache, sreq,
     page, timers, debounceRef, abortRef, gets, posts >>

\* the state of the page
pageVars == << page, timers, debounceRef, abortRef, gets, posts >>

\* the state of the server
serverVars == << impl, apiKey, now, ticks, weatherCache, wreq, suggestCache, sreq >>

\* the state of the suggestion route
suggestVars == << suggestCache, sreq >>

\* the state of the weather route
weatherVars == << impl, weatherCache, wreq >>

\* a request body that is a JSON object; a field the object lacks is Undefined
Obj(city, state, zip) ==
  [ kind |-> "object", city |-> city, state |-> state, zip |-> zip ]

\* StateOk without the upper-casing transform
StateOkCaseSensitive(state) == state.t = "string" /\ state.s \in US_STATES

\* the `state` field of cityStateSchema and requestSchema: a string that, upper-cased,
\* is one of US_STATES
StateOk(state) == state.t = "string" /\ toUpperCase(state.s) \in US_STATES

\* cityStateSchema: accepts the body
cityStateSchemaOk(body) ==
  /\ body.kind = "object"
  /\ body.city.t = "string"
  /\ Len(body.city.s) >= 1
  /\ Len(body.city.s) <= 100
  /\ StateOk(body.state)
  /\ body.zip.t \in { "undefined", "string" }

\* cityStateSchema.parse(body), for an accepted body
cityStateSchema(body) ==
  [ city |-> body.city.s, state |-> toUpperCase(body.state.s), zip |-> body.zip ]

\* zipOnlySchema: accepts the body
zipOnlySchemaOk(body) ==
  /\ body.kind = "object"
  /\ body.zip.t = "string"
  /\ IsFiveDigits(body.zip.s)

\* requestSchema of the sibling version: accepts the body
requestSchemaOk(body) ==
  /\ body.kind = "object"
  /\ body.city.t = "string"
  /\ Len(body.city.s) >= 1
  /\ Len(body.city.s) <= 100
  /\ StateOk(body.state)

\* `body.zip && !body.city`
IsZipOnlyMode(body) == Truthy(body.zip) /\ ~Truthy(body.city)

\* reading body.zip throws a TypeError when the body is null
BodyReadThrows(body) == impl = "part_000" /\ body.kind = "null"

\* the body passes the validation of the deployed version
Validates(body) ==
  IF impl = "part_000"
  THEN IF IsZipOnlyMode(body) THEN zipOnlySchemaOk(body) ELSE cityStateSchemaOk(body)
  ELSE requestSchemaOk(body)

Dash == << "-" >>

ZipPrefix == << "z", "i", "p", "-" >>

\* CacheKey with the city left in the case it was sent in
CacheKeyCaseSensitive(body) ==
  IF impl = "part_000"
  THEN IF IsZipOnlyMode(body)
       THEN ZipPrefix \o body.zip.s
       ELSE LET p == cityStateSchema(body)
            IN  p.city \o Dash \o p.state
                  \o (IF Truthy(p.zip) THEN Dash \o p.zip.s ELSE << >>)
  ELSE body.city.s \o Dash \o toUpperCase(body.state.s)

\* CacheKey with the whole key lower-cased
CacheKeyLowered(body) ==
  IF IsZipOnlyMode(body)
  THEN ZipPrefix \o body.zip.s
  ELSE LET p == cityStateSchema(body)
       IN  toLowerCase(p.city \o Dash \o p.state
                         \o (IF Truthy(p.zip) THEN Dash \o p.zip.s ELSE << >>))

\* cacheKey of a validated body
CacheKey(body) ==
  IF impl = "part_000"
  THEN IF IsZipOnlyMode(body)
       THEN ZipPrefix \o body.zip.s
       ELSE LET p == cityStateSchema(body)
            IN  toLowerCase(p.city) \o Dash \o p.state
                  \o (IF Truthy(p.zip) THEN Dash \o p.zip.s ELSE << >>)
  ELSE toLowerCase(body.city.s) \o Dash \o toUpperCase(body.state.s)

(***************************************************************************)
(* Response cache.                                                         *)
(***************************************************************************)
NoEntry == [ found |-> FALSE, data |-> << >>, timestamp |-> 0 ]

\* cache.get(key)
CacheGet(cache, key) ==
  IF key \in DOMAIN cache
  THEN [ found |-> TRUE, data |-> cache[key].data, timestamp |-> cache[key].timestamp ]
  ELSE NoEntry

\* CacheSet that keeps the entry a key already has: first writer wins
CacheSetIfAbsent(cache, key, data, timestamp) ==
  [ k \in DOMAIN cache \cup { key } |->
      IF k \in DOMAIN cache THEN cache[k] ELSE [ data |-> data, timestamp |-> timestamp ] ]

\* cache.set(key, { data, timestamp })
CacheSet(cache, key, data, timestamp) ==
  [ k \in DOMAIN cache \cup { key } |->
      IF k = key THEN [ data |-> data, timestamp |-> timestamp ] ELSE cache[k] ]

\* IsFresh with the comparison off by one: an entry exactly one TTL old still counts
IsFreshInclusive(entry, t) == entry.found /\ t - entry.timestamp <= WEATHER_CACHE_TTL

\* `cached && Date.now() - cached.timestamp < CACHE_TTL` of the weather route
IsFresh(entry, t) == entry.found /\ t - entry.timestamp < WEATHER_CACHE_TTL

\* CredentialMissing without the comparison with the placeholder: `!apiKey`
CredentialAbsent == apiKey = ""

\* `!apiKey || apiKey === "your_openrouter_api_key_here"`
CredentialMissing == apiKey = "" \/ apiKey = PLACEHOLDER_KEY

(***************************************************************************)
(* Weather route: the inputs the model draws from.                         *)
(***************************************************************************)
Ely == << "E", "l", "y" >>

ZipEly == << "8", "9", "3", "0", "1" >>

\* a string of n characters "x"
LongString(n) == [ i \in 1..n |-> "x" ]

\* the request bodies clients send: city+state in either case, with and without
\* a zip, zip-only, valid and invalid, and two bodies that are no JSON object
WeatherBodies ==
  { Obj(Str(Ely), Str(<< "N", "V" >>), Undefined),
    Obj(Str(<< "E", "L", "Y" >>), Str(<< "n", "v" >>), Undefined),
    Obj(Str(Ely), Str(<< "Z", "Z" >>), Undefined),
    Obj(Str(Ely), Str(<< "z", "z" >>), Undefined),
    Obj(Str(Ely), Str(<< "N", "v" >>), Str(<< "8", "9", "3" >>)),
    Obj(Undefined, Undefined, Str(ZipEly)),
    Obj(Undefined, Undefined, Str(<< "8", "9", "3" >>)),
    [ kind |-> "null" ],
    [ kind |-> "invalid" ] }

\* the first choice's message content of a 2xx upstream answer
Sunny == << "s", "u", "n" >>

\* a report that ends with a line break
Rain == << "r", "a", "i", "n", "\n" >>

UpstreamContents == { Undefined, Str(<< >>), Str(Sunny), Str(Rain) }

\* how `await fetch(...)` rejects
FetchFailures == { "TimeoutError", "TypeError" }

\* how `await response.text()` throws
ReadFailures == { "TimeoutError", "TypeError" }

\* how `await response.json()` throws
JsonFailures == { "TimeoutError", "SyntaxError" }

ApiKeys == { "", PLACEHOLDER_KEY, "sk-or-live" }

(***************************************************************************)
(* Weather route: POST.                                                    *)
(***************************************************************************)
IdleRequest ==
  [ pc |-> "idle", body |-> [ kind |-> "none" ], cacheKey |-> << >>,
    calls |-> 0, cause |-> "", thrown |-> "", status |-> 0, cached |-> FALSE,
    report |-> << >>, error |-> "" ]

\* RespondReport that trims the text of a report it serves from the cache
RespondReportTidied(req, report, cached) ==
  [ req EXCEPT !.pc = "done", !.cause = "none", !.status = 200,
               !.cached = cached,
               !.report = IF cached THEN trim(report) ELSE report ]

\* NextResponse.json({ report, cached })
RespondReport(req, report, cached) ==
  [ req EXCEPT !.pc = "done", !.cause = "none", !.status = 200,
               !.cached = cached, !.report = report ]

\* NextResponse.json({ error }, { status })
RespondError(req, cause, status, error) ==
  [ req EXCEPT !.pc = "done", !.cause = cause, !.status = status, !.error = error ]

\* CatchStatus without the branch for TimeoutError
CatchStatusNoTimeout(exc) == IF exc = "ZodError" THEN 400 ELSE 500

\* the status the catch block answers with, by the exception it caught
CatchStatus(exc) ==
  IF exc = "ZodError" THEN 400
  ELSE IF exc = "TimeoutError" THEN 504
  ELSE 500

\* the message the catch block answers with
CatchError(exc) ==
  IF exc = "ZodError" THEN "Invalid input"
  ELSE IF exc = "TimeoutError" THEN "Request timed out"
  ELSE "Something went wrong"

\* the catch block of POST, entered with exception exc
Catch(req, cause, exc) ==
  [ RespondError(req, cause, CatchStatus(exc), CatchError(exc)) EXCEPT !.thrown = exc ]

\* what a failure is called when it is met: a timeout or another exception
ExceptionCause(exc) == IF exc = "TimeoutError" THEN "timeout" ELSE "exception"

\* the upstream call of a request: one fetch
StartFetch(req) == [ req EXCEPT !.pc = "fetching", !.calls = @ + 1 ]

\* Handle with the credential checked before the cache is looked up
HandleCredentialFirst(r, body) ==
  /\ wreq[r].pc = "idle"
  /\ \A q \in 1..(r - 1) : wreq[q].pc # "idle"
  /\ LET req == [ wreq[r] EXCEPT !.body = body ]
     IN  wreq' = [ wreq EXCEPT ![r] =
           IF body.kind = "invalid"
           THEN Catch(req, "exception", "SyntaxError")
           ELSE IF BodyReadThrows(body)
           THEN Catch(req, "exception", "TypeError")
           ELSE IF ~Validates(body)
           THEN Catch(req, "validation", "ZodError")
           ELSE LET key    == CacheKey(body)
                    cached == CacheGet(weatherCache, key)
                    looked == [ req EXCEPT !.cacheKey = key ]
                IN  IF CredentialMissing
                    THEN RespondError(looked, "credential", 500, "API key not configured")
                    ELSE IF IsFresh(cached, now)
                    THEN RespondReport(looked, cached.data, TRUE)
                    ELSE StartFetch(looked) ]
  /\ UNCHANGED << impl, apiKey, now, ticks, weatherCache, suggestVars, pageVars >>

\* POST from the request's arrival to its first answer or to the start of
\* the upstream call.  `await request.json()` touches no shared state, so the
\* stretch is one step: parse, validate, derive the key, look the cache up,
\* check the credential, start the fetch.
Handle(r, body) ==
  /\ wreq[r].pc = "idle"
  /\ \A q \in 1..(r - 1) : wreq[q].pc # "idle"
  /\ LET req == [ wreq[r] EXCEPT !.body = body ]
     IN  wreq' = [ wreq EXCEPT ![r] =
           IF body.kind = "invalid"
           THEN Catch(req, "exception", "SyntaxError")
           ELSE IF BodyReadThrows(body)
           THEN Catch(req, "exception", "TypeError")
           ELSE IF ~Validates(body)
           THEN Catch(req, "validation", "ZodError")
           ELSE LET key    == CacheKey(body)
                    cached == CacheGet(weatherCache, key)
                    looked == [ req EXCEPT !.cacheKey = key ]
                IN  IF IsFresh(cached, now)
                    THEN RespondReport(looked, cached.data, TRUE)
                    ELSE IF CredentialMissing
                    THEN RespondError(looked, "credential", 500, "API key not configured")
                    ELSE StartFetch(looked) ]
  /\ UNCHANGED << impl, apiKey, now, ticks, weatherCache, suggestVars, pageVars >>

\* FetchFails of a fetch that carries no timeout signal: it rejects only when
\* the network fails
FetchFailsWithoutTimeout(r, exc) ==
  /\ exc # "TimeoutError"
  /\ wreq[r].pc = "fetching"
  /\ wreq' = [ wreq EXCEPT ![r] = Catch(@, ExceptionCause(exc), exc) ]
  /\ UNCHANGED << impl, apiKey, now, ticks, weatherCache, suggestVars, pageVars >>

\* `await fetch(...)` rejects: the timeout signal fired, or the network failed
FetchFails(r, exc) ==
  /\ wreq[r].pc = "fetching"
  /\ wreq' = [ wreq EXCEPT ![r] = Catch(@, ExceptionCause(exc), exc) ]
  /\ UNCHANGED << impl, apiKey, now, ticks, weatherCache, suggestVars, pageVars >>

\* UpstreamError that drops the entry of the request's key: the cache is
\* invalidated when the upstream answers non-2xx
UpstreamErrorEvicting(r, outcome) ==
  /\ wreq[r].pc = "fetching"
  /\ wreq' = [ wreq EXCEPT ![r] =
       IF outcome = "read"
       THEN RespondError(@, "non2xx", 502, "Weather service returned an error")
       ELSE Catch(@, "non2xx", outcome) ]
  /\ weatherCache' = [ k \in DOMAIN weatherCache \ { wreq[r].cacheKey } |->
                         weatherCache[k] ]
  /\ UNCHANGED << impl, apiKey, now, ticks, suggestVars, pageVars >>

\* the upstream answers non-2xx; `await response.text()` yields the body
\* (outcome "read") or throws
UpstreamError(r, outcome) ==
  /\ wreq[r].pc = "fetching"
  /\ wreq' = [ wreq EXCEPT ![r] =
       IF outcome = "read"
       THEN RespondError(@, "non2xx", 502, "Weather service returned an error")
       ELSE Catch(@, "non2xx", outcome) ]
  /\ UNCHANGED << impl, apiKey, now, ticks, weatherCache, suggestVars, pageVars >>

\* the upstream answers 2xx and `await response.json()` throws
UpstreamUnreadable(r, exc) ==
  /\ wreq[r].pc = "fetching"
  /\ wreq' = [ wreq EXCEPT ![r] = Catch(@, ExceptionCause(exc), exc) ]
  /\ UNCHANGED << impl, apiKey, now, ticks, weatherCache, suggestVars, pageVars >>

\* UpstreamAnswers that looks the cache up again before it writes: a request
\* that finds the entry another request wrote meanwhile answers that entry
UpstreamAnswersRechecking(r, content) ==
  /\ wreq[r].pc = "fetching"
  /\ IF ~Truthy(content)
     THEN /\ wreq' = [ wreq EXCEPT ![r] =
                RespondError(@, "empty", 502, "No weather data received") ]
          /\ UNCHANGED weatherCache
     ELSE IF IsFresh(CacheGet(weatherCache, wreq[r].cacheKey), now)
     THEN /\ wreq' = [ wreq EXCEPT ![r] =
                RespondReport(@, CacheGet(weatherCache, wreq[r].cacheKey).data, TRUE) ]
          /\ UNCHANGED weatherCache
     ELSE /\ weatherCache' = CacheSet(weatherCache, wreq[r].cacheKey, content.s, now)
          /\ wreq' = [ wreq EXCEPT ![r] = RespondReport(@, content.s, FALSE) ]
  /\ UNCHANGED << impl, apiKey, now, ticks, suggestVars, pageVars >>

\* the upstream answers 2xx with JSON: the report is extracted and, when there
\* is one, cached and returned
UpstreamAnswers(r, content) ==
  /\ wreq[r].pc = "fetching"
  /\ IF ~Truthy(content)
     THEN /\ wreq' = [ wreq EXCEPT ![r] =
                RespondError(@, "empty", 502, "No weather data received") ]
          /\ UNCHANGED weatherCache
     ELSE /\ weatherCache' = CacheSet(weatherCache, wreq[r].cacheKey, content.s, now)
          /\ wreq' = [ wreq EXCEPT ![r] = RespondReport(@, content.s, FALSE) ]
  /\ UNCHANGED << impl, apiKey, now, ticks, suggestVars, pageVars >>

\* the clock advances by d milliseconds.  The code reads the clock only to
\* stamp an entry and to compare it with an entry's stamp, so the time that
\* passes before the first entry exists changes nothing.
Tick(d) ==
  /\ ticks < MaxTicks
  /\ weatherCache # << >> \/ suggestCache # << >>
  /\ now' = now + d
  /\ ticks' = ticks + 1
  /\ UNCHANGED << apiKey, weatherVars, suggestVars, pageVars >>

WeatherReqs == 1..NumWeatherReq

\* the steps of the clock that exercise the TTL boundary
WeatherTicks == { WEATHER_CACHE_TTL - 1, WEATHER_CACHE_TTL }

(***************************************************************************)
(* Suggestion route: GET /api/suggest.                                     *)
(***************************************************************************)
\* CACHE_TTL of the suggestion route, in milliseconds
SUGGEST_CACHE_TTL == 24 * 60 * 60 * 1000

\* the characters `.` does not match
LineTerminators == { "\n", "\r" }

\* s from position i on
From(s, i) == SubSeq(s, i, Len(s))

\* /^\s+\d{5}$/ on the rest of an entry after the state code
IsSpaceThenZip(u) ==
  /\ Len(u) >= 6
  /\ \A j \in 1..(Len(u) - 5) : u[j] \in Whitespace
  /\ IsFiveDigits(From(u, Len(u) - 4))

\* /^\s*[A-Z]{2}(\s+\d{5})?$/ on the rest of an entry after a comma
IsStateThenZip(t) ==
  \E k \in 0..Len(t) :
    /\ \A j \in 1..k : t[j] \in Whitespace
    /\ Len(t) >= k + 2
    /\ IsUpper(t[k + 1])
    /\ IsUpper(t[k + 2])
    /\ Len(t) = k + 2 \/ IsSpaceThenZip(From(t, k + 3))

\* /^.+,\s*[A-Z]{2}(\s+\d{5})?$/.test(s)
MatchesSuggestion(s) ==
  \E i \in 2..Len(s) :
    /\ s[i] = ","
    /\ \A j \in 1..(i - 1) : s[j] \notin LineTerminators
    /\ IsStateThenZip(From(s, i + 1))

\* the filter's test: `typeof s === "string"` and the pattern
IsSuggestion(v) == v.t = "string" /\ MatchesSuggestion(v.s)

\* Array.prototype.slice(0, n)
Slice(list, n) == SubSeq(list, 1, IF Len(list) < n THEN Len(list) ELSE n)

\* Suggestions without the slice
SuggestionsUncut(parsed) ==
  LET kept == SelectSeq(parsed, IsSuggestion)
  IN  [ i \in DOMAIN kept |-> kept[i].s ]

\* `parsed.filter(...).slice(0, 6)`
Suggestions(parsed) ==
  LET kept == Slice(SelectSeq(parsed, IsSuggestion), 6)
  IN  [ i \in DOMAIN kept |-> kept[i].s ]

\* the first choice's message content of a 2xx upstream answer: text that may
\* be wrapped in a code fence and reads as a JSON document or does not
Text(fence, doc) == [ t |-> "text", fence |-> fence, doc |-> doc ]

\* a JSON array
Arr(items) == [ k |-> "array", items |-> items ]

\* JSON that is no array
NotArray == [ k |-> "object" ]

\* no JSON at all
NotJson == [ k |-> "invalid" ]

\* nothing but whitespace
Blank == [ k |-> "blank" ]

\* `content?.trim()` is falsy: no content, or an empty or blank string
IsEmptyContent(content) ==
  \/ content.t = "undefined"
  \/ content.t = "text" /\ content.fence = "" /\ content.doc = Blank

\* the fences the two `replace` calls strip: none (""), a bare one and one
\* tagged json; a fence with another tag ("js") leaves the tag behind
StrippedFences == { "", "bare", "json" }

\* JSON.parse of the content with its fence stripped: the document, or NotJson
\* when JSON.parse throws
ParseCleaned(content) ==
  IF content.fence \in StrippedFences /\ content.doc # Blank
  THEN content.doc
  ELSE NotJson

IdleSuggest ==
  [ pc |-> "idle", q |-> Null, cacheKey |-> << >>, calls |-> 0, cause |-> "",
    status |-> 0, suggestions |-> << >>, upstream |-> << >> ]

\* NextResponse.json({ suggestions }): the status is the default, 200
SuggestRespond(req, suggestions, cause) ==
  [ req EXCEPT !.pc = "done", !.cause = cause, !.status = 200,
               !.suggestions = suggestions ]

\* SuggestCatch answering as the weather route's catch block does
SuggestCatchError(req, cause) ==
  [ req EXCEPT !.pc = "done", !.cause = cause, !.status = 500 ]

\* the catch block of GET
SuggestCatch(req, cause) == SuggestRespond(req, << >>, cause)

\* SuggestIsFresh with the comparison off by one
SuggestIsFreshInclusive(entry, t) ==
  entry.found /\ t - entry.timestamp <= SUGGEST_CACHE_TTL

\* `cached && Date.now() - cached.timestamp < CACHE_TTL` of the suggestion route
SuggestIsFresh(entry, t) == entry.found /\ t - entry.timestamp < SUGGEST_CACHE_TTL

\* cacheKey of a trimmed query
SuggestKey(q) == toLowerCase(q)

\* `!q || q.length < 2` with the comparison off by one
IsShortQueryOffByOne(param) ==
  param.t = "null" \/ Len(trim(param.s)) < 1

\* `!q || q.length < 2`, q being the trimmed `q` parameter if there is one
IsShortQuery(param) ==
  param.t = "null" \/ Len(trim(param.s)) < 2

\* the upstream call of a suggestion request: one fetch
SuggestStartFetch(req) == [ req EXCEPT !.pc = "fetching", !.calls = @ + 1 ]

\* GET from the request's arrival to its first answer or to the start of the
\* upstream call: read and trim q, look the cache up, check the credential
SuggestHandle(r, param) ==
  /\ sreq[r].pc = "idle"
  /\ \A p \in 1..(r - 1) : sreq[p].pc # "idle"
  /\ LET req == [ sreq[r] EXCEPT !.q = param ]
     IN  sreq' = [ sreq EXCEPT ![r] =
           IF IsShortQuery(param)
           THEN SuggestRespond(req, << >>, "short")
           ELSE LET key    == SuggestKey(trim(param.s))
                    cached == CacheGet(suggestCache, key)
                    looked == [ req EXCEPT !.cacheKey = key ]
                IN  IF SuggestIsFresh(cached, now)
                    THEN SuggestRespond(looked, cached.data, "hit")
                    ELSE IF CredentialMissing
                    THEN SuggestRespond(looked, << >>, "credential")
                    ELSE SuggestStartFetch(looked) ]
  /\ UNCHANGED << apiKey, now, ticks, suggestCache, weatherVars, pageVars >>

\* `await fetch(...)` rejects: the timeout signal fired, or the network failed
SuggestFetchFails(r, exc) ==
  /\ sreq[r].pc = "fetching"
  /\ sreq' = [ sreq EXCEPT ![r] = SuggestCatch(@, ExceptionCause(exc)) ]
  /\ UNCHANGED << apiKey, now, ticks, suggestCache, weatherVars, pageVars >>

\* the upstream answers non-2xx
SuggestUpstreamError(r) ==
  /\ sreq[r].pc = "fetching"
  /\ sreq' = [ sreq EXCEPT ![r] = SuggestRespond(@, << >>, "non2xx") ]
  /\ UNCHANGED << apiKey, now, ticks, suggestCache, weatherVars, pageVars >>

\* the upstream answers 2xx and `await response.json()` throws
SuggestUnreadable(r, exc) ==
  /\ sreq[r].pc = "fetching"
  /\ sreq' = [ sreq EXCEPT ![r] = SuggestCatch(@, ExceptionCause(exc)) ]
  /\ UNCHANGED << apiKey, now, ticks, suggestCache, weatherVars, pageVars >>

\* SuggestAnswers that caches a list only when filtering left an entry
SuggestAnswersSkippingEmpty(r, content) ==
  /\ sreq[r].pc = "fetching"
  /\ LET parsed == ParseCleaned(content)
     IN  IF content.t = "number"
         THEN /\ sreq' = [ sreq EXCEPT ![r] = SuggestCatch(@, "exception") ]
              /\ UNCHANGED suggestCache
         ELSE IF IsEmptyContent(content)
         THEN /\ sreq' = [ sreq EXCEPT ![r] = SuggestRespond(@, << >>, "empty") ]
              /\ UNCHANGED suggestCache
         ELSE IF parsed = NotJson
         THEN /\ sreq' = [ sreq EXCEPT ![r] = SuggestCatch(@, "notjson") ]
              /\ UNCHANGED suggestCache
         ELSE IF parsed.k # "array"
         THEN /\ sreq' = [ sreq EXCEPT ![r] = SuggestRespond(@, << >>, "notarray") ]
              /\ UNCHANGED suggestCache
         ELSE /\ suggestCache' =
                   IF Suggestions(parsed.items) = << >>
                   THEN suggestCache
                   ELSE CacheSet(suggestCache, sreq[r].cacheKey,
                                 Suggestions(parsed.items), now)
              /\ sreq' = [ sreq EXCEPT ![r] =
                   [ SuggestRespond(@, Suggestions(parsed.items), "none")
                       EXCEPT !.upstream = parsed.items ] ]
  /\ UNCHANGED << apiKey, now, ticks, weatherVars, pageVars >>

\* the upstream answers 2xx with JSON: the content is trimmed, stripped of its
\* fence, parsed, filtered, cut to 6 entries, cached and returned
SuggestAnswers(r, content) ==
  /\ sreq[r].pc = "fetching"
  /\ LET parsed == ParseCleaned(content)
     IN  IF content.t = "number"
         THEN /\ sreq' = [ sreq EXCEPT ![r] = SuggestCatch(@, "exception") ]
              /\ UNCHANGED suggestCache
         ELSE IF IsEmptyContent(content)
         THEN /\ sreq' = [ sreq EXCEPT ![r] = SuggestRespond(@, << >>, "empty") ]
              /\ UNCHANGED suggestCache
         ELSE IF parsed = NotJson
         THEN /\ sreq' = [ sreq EXCEPT ![r] = SuggestCatch(@, "notjson") ]
              /\ UNCHANGED suggestCache
         ELSE IF parsed.k # "array"
         THEN /\ sreq' = [ sreq EXCEPT ![r] = SuggestRespond(@, << >>, "notarray") ]
              /\ UNCHANGED suggestCache
         ELSE /\ suggestCache' = CacheSet(suggestCache, sreq[r].cacheKey,
                                          Suggestions(parsed.items), now)
              /\ sreq' = [ sreq EXCEPT ![r] =
                   [ SuggestRespond(@, Suggestions(parsed.items), "none")
                       EXCEPT !.upstream = parsed.items ] ]
  /\ UNCHANGED << apiKey, now, ticks, weatherVars, pageVars >>

SuggestReqs == 1..NumSuggestReq

\* the steps of the clock that exercise the suggestion TTL boundary
SuggestTicks == { SUGGEST_CACHE_TTL - 1, SUGGEST_CACHE_TTL }

(***************************************************************************)
(* Suggestion route: the inputs the model draws from.                      *)
(***************************************************************************)
\* "<c>, NV"
Place(c) == << c, ",", " ", "N", "V" >>

ElyNV == Ely \o << ",", " ", "N", "V" >>

ElyNVZip == ElyNV \o << " " >> \o ZipEly

\* a query parameter: absent, too short before or after trimming, and the
\* same two letters in different case and with spaces around them
SuggestParams ==
  { Null,
    Str(<< "e" >>),
    Str(<< " ", "e", " " >>),
    Str(<< "e", "l" >>),
    Str(<< "E", "L" >>),
    Str(<< " ", "E", "l", " " >>) }

\* entries of all shapes: seven that match, among them the ones the prompt
\* asks for, and four that do not
MixedItems ==
  << Str(ElyNV), Str(Ely \o << " ", "N", "V" >>), Str(ElyNVZip), Num(7),
     Str(Place("A")), Str(Ely \o << ",", " ", "n", "v" >>), Str(Place("B")),
     Str(Place("C")), Str(<< ",", " ", "N", "V" >>), Str(Place("D")),
     Str(Place("E")) >>

SuggestContents ==
  { Undefined,
    Num(7),
    Text("", Blank),
    Text("", NotJson),
    Text("", NotArray),
    Text("js", Arr(<< Str(ElyNV) >>)),
    Text("", Arr(<< Num(7), Str(Ely) >>)),
    Text("json", Arr(<< Str(ElyNVZip), Str(ElyNV) >>)),
    Text("bare", Arr(MixedItems)) }

(***************************************************************************)
(* The page: the Home component.  Modelled are the handlers through which *)
(* the page calls the two routes: input changes with their debounce timer  *)
(* and abort, the choice of a suggestion by a click, the form's submit and *)
(* the continuations that receive the answers, and the keys pressed in    *)
(* the input.  The click-outside listener is not modelled.  A request      *)
(* whose response has been delivered or dropped is closed: its record      *)
(* keeps the number of its upstream calls and nothing else.                *)
(***************************************************************************)
\* the useState defaults
InitialPage ==
  [ query |-> << >>, suggestions |-> << >>, showSuggestions |-> FALSE,
    suggestLoading |-> FALSE, highlightIndex |-> -1, selectedCity |-> << >>,
    selectedState |-> << >>, selectedZip |-> << >>, report |-> << >>,
    loading |-> FALSE, error |-> "", cached |-> FALSE ]

\* debounceRef with no timeout in it
NoTimer == 0

\* clearTimeout(id) that clears nothing
ClearTimeoutForgotten(pending, id) == pending

\* clearTimeout(id): the timeout with that id, if it is pending, is gone
ClearTimeout(pending, id) == { t \in pending : t.id # id }

\* the id setTimeout returns: one that no pending timeout has
TimeoutId(pending) ==
  CHOOSE n \in 1..(Cardinality(pending) + 1) :
    /\ \A t \in pending : t.id # n
    /\ \A m \in 1..(n - 1) : \E t \in pending : t.id = m

\* a fetch the page has not started
NoGet == [ state |-> "none", q |-> Null ]

NoPost == [ state |-> "none", body |-> [ kind |-> "none" ] ]

\* a weather request whose response has been delivered: it is over, and only
\* the number of its upstream calls is remembered
ClosedRequest(req) == [ IdleRequest EXCEPT !.pc = "closed", !.calls = req.calls ]

\* a suggestion request whose response has been delivered
ClosedSuggest(req) == [ IdleSuggest EXCEPT !.pc = "closed", !.calls = req.calls ]

\* String.prototype.indexOf(c), counting from 1; 0 when c does not occur
IndexOf(s, c) ==
  LET at == { i \in DOMAIN s : s[i] = c }
  IN  IF at = { } THEN 0 ELSE CHOOSE i \in at : \A j \in at : i <= j

\* String.prototype.lastIndexOf(c), counting from 1; 0 when c does not occur
LastIndexOf(s, c) ==
  LET at == { i \in DOMAIN s : s[i] = c }
  IN  IF at = { } THEN 0 ELSE CHOOSE i \in at : \A j \in at : j <= i

\* afterComma.match(/^([A-Z]{2})\s+(\d{5})$/) succeeds
ZipMatch(t) ==
  /\ Len(t) >= 8
  /\ IsUpper(t[1])
  /\ IsUpper(t[2])
  /\ IsSpaceThenZip(From(t, 3))

\* the location handleSubmit parses from the typed query; failed when the
\* query is no zip and city, state and zip all stay empty
ParseTyped(p) ==
  LET trimmed    == trim(p.query)
      commaIdx   == LastIndexOf(trimmed, ",")
      c          == trim(SubSeq(trimmed, 1, commaIdx - 1))
      afterComma == toUpperCase(trim(From(trimmed, commaIdx + 1)))
      given      == [ city |-> p.selectedCity, state |-> p.selectedState,
                      zip |-> p.selectedZip, failed |-> FALSE ]
      parsed     ==
        IF commaIdx > 1 /\ ZipMatch(afterComma)
        THEN [ given EXCEPT !.city = c, !.state = SubSeq(afterComma, 1, 2),
                            !.zip = From(afterComma, Len(afterComma) - 4) ]
        ELSE IF commaIdx > 1 /\ Len(c) > 0 /\ Len(afterComma) = 2
        THEN [ given EXCEPT !.city = c, !.state = afterComma ]
        ELSE given
  IN  IF IsFiveDigits(trimmed)
      THEN [ given EXCEPT !.city = << >>, !.state = << >>, !.zip = trimmed ]
      ELSE [ parsed EXCEPT !.failed =
               parsed.city = << >> /\ parsed.state = << >> /\ parsed.zip = << >> ]

\* the location handleSubmit submits: the selected one, or the typed one
SubmitLocation(p) ==
  IF p.selectedCity = << >> \/ p.selectedState = << >>
  THEN ParseTyped(p)
  ELSE [ city |-> p.selectedCity, state |-> p.selectedState,
         zip |-> p.selectedZip, failed |-> FALSE ]

\* requestBody of handleSubmit, as the route reads it
RequestBody(loc) ==
  IF loc.city # << >> /\ loc.state # << >>
  THEN Obj(Str(loc.city), Str(loc.state),
           IF loc.zip # << >> THEN Str(loc.zip) ELSE Undefined)
  ELSE IF loc.zip # << >>
  THEN Obj(Undefined, Undefined, Str(loc.zip))
  ELSE Obj(Undefined, Undefined, Undefined)

ParseErrorMessage == "Enter a city name, zip code, or select from AI suggestions"

DefaultErrorMessage == "Something went wrong. Please try again."

NetworkErrorMessage == "Network error. Please check your connection and try again."

\* AbortHits of a handler that never calls abort()
AbortNever == FALSE

\* the fetch abortRef holds is still awaited
AbortHits == abortRef # 0 /\ gets[abortRef].state = "inflight"

\* handleInputChange(value) with fetchSuggestions(value): the pending timer is
\* cleared and the latest controller aborted; the aborted fetch rejects with
\* an AbortError, and its `finally` runs as a microtask right after the
\* handler, so it is part of the step
HandleInputChange(value) ==
  LET short   == Len(trim(value)) < 2
      typed   == [ page EXCEPT !.query = value, !.selectedCity = << >>,
                               !.selectedState = << >>, !.selectedZip = << >> ]
      fetched == IF short
                 THEN [ typed EXCEPT !.suggestions = << >>,
                                     !.showSuggestions = FALSE,
                                     !.suggestLoading = FALSE ]
                 ELSE [ typed EXCEPT !.suggestLoading = TRUE ]
  IN  /\ page' = IF AbortHits THEN [ fetched EXCEPT !.suggestLoading = FALSE ]
                 ELSE fetched
      /\ LET cleared == ClearTimeout(timers, debounceRef)
         IN  IF short
             THEN timers' = cleared /\ UNCHANGED debounceRef
             ELSE /\ timers' = cleared \cup
                              { [ id |-> TimeoutId(cleared), value |-> value ] }
                  /\ debounceRef' = TimeoutId(cleared)
      /\ gets' = IF AbortHits THEN [ gets EXCEPT ![abortRef].state = "aborted" ]
                 ELSE gets
      /\ UNCHANGED << abortRef, posts, serverVars >>

\* the debounce timer fires after 300 ms: a new controller, and the fetch of
\* /api/suggest?q=<trimmed value> is sent as request r
DebounceFires(r) ==
  /\ gets[r].state = "none"
  /\ \A p \in 1..(r - 1) : gets[p].state # "none"
  /\ \E t \in timers :
       /\ timers' = timers \ { t }
       /\ gets' = [ gets EXCEPT ![r] = [ state |-> "inflight",
                                         q |-> Str(trim(t.value)) ] ]
  /\ abortRef' = r
  /\ UNCHANGED << page, debounceRef, posts, serverVars >>

\* the response of suggestion request r reaches the page: the rest of the
\* timer callback's try block, and its finally
SuggestionsArrive(r) ==
  /\ gets[r].state = "inflight"
  /\ sreq[r].pc = "done"
  /\ LET results == sreq[r].suggestions
     IN  page' = [ page EXCEPT !.suggestions = results,
                               !.showSuggestions = Len(results) > 0,
                               !.highlightIndex = -1,
                               !.suggestLoading = FALSE ]
  /\ gets' = [ gets EXCEPT ![r].state = "applied" ]
  /\ sreq' = [ sreq EXCEPT ![r] = ClosedSuggest(@) ]
  /\ UNCHANGED << timers, debounceRef, abortRef, posts, suggestCache, apiKey, now, ticks,
                  weatherVars >>

\* the fetch of suggestion request r rejects for a reason other than an
\* abort: the catch block, and the finally
SuggestionsFail(r) ==
  /\ gets[r].state = "inflight"
  /\ page' = [ page EXCEPT !.suggestions = << >>, !.showSuggestions = FALSE,
                           !.suggestLoading = FALSE ]
  /\ gets' = [ gets EXCEPT ![r].state = "failed" ]
  /\ UNCHANGED << timers, debounceRef, abortRef, posts, serverVars >>

\* selectCity(suggestions[i]), by a click on entry i of the open dropdown
SelectCity(i) ==
  /\ page.showSuggestions
  /\ i \in DOMAIN page.suggestions
  /\ LET cityState  == page.suggestions[i]
         commaIdx   == LastIndexOf(cityState, ",")
         afterComma == trim(From(cityState, commaIdx + 1))
         selected   ==
           IF commaIdx <= 1 THEN page
           ELSE IF ZipMatch(afterComma)
           THEN [ page EXCEPT !.selectedCity = trim(SubSeq(cityState, 1, commaIdx - 1)),
                              !.selectedState = SubSeq(afterComma, 1, 2),
                              !.selectedZip = From(afterComma, Len(afterComma) - 4) ]
           ELSE [ page EXCEPT !.selectedCity = trim(SubSeq(cityState, 1, commaIdx - 1)),
                              !.selectedState = afterComma,
                              !.selectedZip = << >> ]
     IN  page' = [ selected EXCEPT !.query = cityState, !.showSuggestions = FALSE,
                                   !.highlightIndex = -1, !.suggestLoading = FALSE ]
  /\ timers' = ClearTimeout(timers, debounceRef)
  /\ UNCHANGED << debounceRef, abortRef, gets, posts, serverVars >>

\* handleSubmit up to its fetch: the location is parsed and, unless that
\* fails, the POST of /api/weather is sent as request r
handleSubmit(r) ==
  LET loc == SubmitLocation(page)
  IN  IF loc.failed
      THEN /\ page' = [ page EXCEPT !.error = ParseErrorMessage ]
           /\ UNCHANGED posts
      ELSE /\ posts[r].state = "none"
           /\ \A q \in 1..(r - 1) : posts[q].state # "none"
           /\ page' = [ page EXCEPT !.loading = TRUE, !.error = "",
                                    !.report = << >>, !.cached = FALSE,
                                    !.showSuggestions = FALSE ]
           /\ posts' = [ posts EXCEPT ![r] = [ state |-> "inflight",
                                               body |-> RequestBody(loc) ] ]

\* the form is submitted, by the button or by Enter in the input; the button
\* is disabled while loading, and a form whose button is disabled is not
\* submitted
HandleSubmit(r) ==
  /\ ~page.loading
  /\ handleSubmit(r)
  /\ UNCHANGED << timers, debounceRef, abortRef, gets, serverVars >>

\* handleKeyDown: a key is pressed in the input.  With the dropdown closed or
\* empty, Enter with a selected city and state calls handleSubmit; any other
\* case there is left to the browser (Enter without a selection submits the
\* form, see HandleSubmit).  With the dropdown open the arrows move the
\* highlight round, Enter and Tab select the highlighted suggestion, Escape
\* closes the dropdown.
HandleKeyDown(key, r) ==
  IF ~page.showSuggestions \/ page.suggestions = << >>
  THEN /\ key = "Enter"
       /\ page.selectedCity # << >> /\ page.selectedState # << >>
       /\ handleSubmit(r)
       /\ UNCHANGED << timers, debounceRef, abortRef, gets, serverVars >>
  ELSE \/ /\ key = "ArrowDown"
          /\ page' = [ page EXCEPT !.highlightIndex =
                         IF @ < Len(page.suggestions) - 1 THEN @ + 1 ELSE 0 ]
          /\ UNCHANGED << timers, debounceRef, abortRef, gets, posts, serverVars >>
       \/ /\ key = "ArrowUp"
          /\ page' = [ page EXCEPT !.highlightIndex =
                         IF @ > 0 THEN @ - 1 ELSE Len(page.suggestions) - 1 ]
          /\ UNCHANGED << timers, debounceRef, abortRef, gets, posts, serverVars >>
       \/ /\ key \in { "Enter", "Tab" }
          /\ page.highlightIndex >= 0
          /\ SelectCity(page.highlightIndex + 1)
       \/ /\ key = "Escape"
          /\ page' = [ page EXCEPT !.showSuggestions = FALSE ]
          /\ UNCHANGED << timers, debounceRef, abortRef, gets, posts, serverVars >>

\* the keys handleKeyDown tells apart
Keys == { "Enter", "ArrowDown", "ArrowUp", "Escape", "Tab" }

\* WeatherArrives that sends the request again when the answer is an error
WeatherArrivesRetrying(r) ==
  /\ posts[r].state = "inflight"
  /\ wreq[r].pc = "done"
  /\ IF wreq[r].status \in 200..299
     THEN /\ page' = [ page EXCEPT !.report = wreq[r].report,
                                   !.cached = wreq[r].cached, !.loading = FALSE ]
          /\ posts' = [ posts EXCEPT ![r].state = "answered" ]
     ELSE /\ page' = [ page EXCEPT !.error = wreq[r].error ]
          /\ \E n \in DOMAIN posts :
               /\ posts[n].state = "none"
               /\ \A q \in 1..(n - 1) : posts[q].state # "none"
               /\ posts' = [ posts EXCEPT ![r].state = "answered",
                                          ![n] = [ posts[r] EXCEPT !.state = "inflight" ] ]
  /\ wreq' = [ wreq EXCEPT ![r] = ClosedRequest(@) ]
  /\ UNCHANGED << timers, debounceRef, abortRef, gets, impl, weatherCache, apiKey, now, ticks,
                  suggestVars >>

\* the response of weather request r reaches the page: the rest of
\* handleSubmit's try block, and its finally
WeatherArrives(r) ==
  /\ posts[r].state = "inflight"
  /\ wreq[r].pc = "done"
  /\ page' = IF wreq[r].status \in 200..299
             THEN [ page EXCEPT !.report = wreq[r].report,
                                !.cached = wreq[r].cached, !.loading = FALSE ]
             ELSE [ page EXCEPT !.error = IF wreq[r].error # "" THEN wreq[r].error
                                          ELSE DefaultErrorMessage,
                                !.loading = FALSE ]
  /\ posts' = [ posts EXCEPT ![r].state = "answered" ]
  /\ wreq' = [ wreq EXCEPT ![r] = ClosedRequest(@) ]
  /\ UNCHANGED << timers, debounceRef, abortRef, gets, impl, weatherCache, apiKey, now, ticks,
                  suggestVars >>

\* the fetch of weather request r rejects: the catch block, and the finally
WeatherFails(r) ==
  /\ posts[r].state = "inflight"
  /\ page' = [ page EXCEPT !.error = NetworkErrorMessage, !.loading = FALSE ]
  /\ posts' = [ posts EXCEPT ![r].state = "failed" ]
  /\ UNCHANGED << timers, debounceRef, abortRef, gets, serverVars >>

\* the response of suggestion request r finds its fetch aborted or rejected
\* and is dropped
SuggestionsDropped(r) ==
  /\ gets[r].state \in { "aborted", "failed" }
  /\ sreq[r].pc = "done"
  /\ sreq' = [ sreq EXCEPT ![r] = ClosedSuggest(@) ]
  /\ UNCHANGED << pageVars, suggestCache, apiKey, now, ticks, weatherVars >>

\* the response of weather request r finds its fetch rejected and is dropped
WeatherDropped(r) ==
  /\ posts[r].state = "failed"
  /\ wreq[r].pc = "done"
  /\ wreq' = [ wreq EXCEPT ![r] = ClosedRequest(@) ]
  /\ UNCHANGED << pageVars, impl, weatherCache, apiKey, now, ticks, suggestVars >>

\* request r of the page reaches the suggestion route
SuggestArrives(r) == gets[r].state # "none" /\ SuggestHandle(r, gets[r].q)

\* request r of the page reaches the weather route
WeatherRequestArrives(r) == posts[r].state # "none" /\ Handle(r, posts[r].body)

(***************************************************************************)
(* The page: the inputs the model draws from.                              *)
(***************************************************************************)
\* what the user types: too short for a suggestion, and a city and state in
\* lower case
PageInputs ==
  { << "e" >>,
    Ely \o << ",", " ", "n", "v" >> }

\* what the upstream answers a suggestion request of the page
PageSuggestContents == { Text("json", Arr(<< Str(ElyNVZip) >>)) }

\* what the upstream answers a weather request of the page
PageUpstreamContents == { Str(Sunny) }

\* the state the application starts in: nothing cached, no request, the page
\* as first rendered
InitRoutes ==
  /\ apiKey \in ApiKeys
  /\ now = 0
  /\ ticks = 0
  /\ weatherCache = << >>
  /\ wreq = [ r \in WeatherReqs |-> IdleRequest ]
  /\ suggestCache = << >>
  /\ sreq = [ r \in SuggestReqs |-> IdleSuggest ]
  /\ page = InitialPage
  /\ timers = { }
  /\ debounceRef = NoTimer
  /\ abortRef = 0
  /\ gets = [ r \in SuggestReqs |-> NoGet ]
  /\ posts = [ r \in WeatherReqs |-> NoPost ]

\* the weather route, in either of its versions, with clients of its own
Init ==
  /\ impl \in { "part_000", "part_001" }
  /\ InitRoutes

Next ==
  \/ \E r \in WeatherReqs, body \in WeatherBodies : Handle(r, body)
  \/ \E r \in WeatherReqs, e \in FetchFailures : FetchFails(r, e)
  \/ \E r \in WeatherReqs, o \in { "read" } \cup ReadFailures : UpstreamError(r, o)
  \/ \E r \in WeatherReqs, e \in JsonFailures : UpstreamUnreadable(r, e)
  \/ \E r \in WeatherReqs, c \in UpstreamContents : UpstreamAnswers(r, c)
  \/ \E d \in WeatherTicks : Tick(d)

Spec == Init /\ [][Next]_vars

\* the upstream call of request r settles: the fetch rejects, the upstream
\* answers non-2xx, its 2xx answer cannot be read, or it answers
Settles(r) ==
  \/ \E e \in FetchFailures : FetchFails(r, e)
  \/ \E o \in { "read" } \cup ReadFailures : UpstreamError(r, o)
  \/ \E e \in JsonFailures : UpstreamUnreadable(r, e)
  \/ \E c \in UpstreamContents : UpstreamAnswers(r, c)

\* the weather route where no upstream call stays pending for ever: the fetch
\* carries AbortSignal.timeout(30000), so it settles after 30 s at the latest
FairSpec == Spec /\ \A r \in WeatherReqs : WF_vars(Settles(r))

\* the suggestion route with clients of its own
InitSuggest ==
  /\ impl = "part_000"
  /\ InitRoutes

NextSuggest ==
  \/ \E r \in SuggestReqs, param \in SuggestParams : SuggestHandle(r, param)
  \/ \E r \in SuggestReqs, e \in FetchFailures : SuggestFetchFails(r, e)
  \/ \E r \in SuggestReqs : SuggestUpstreamError(r)
  \/ \E r \in SuggestReqs, e \in JsonFailures : SuggestUnreadable(r, e)
  \/ \E r \in SuggestReqs, c \in SuggestContents : SuggestAnswers(r, c)
  \/ \E d \in SuggestTicks : Tick(d)

SpecSuggest == InitSuggest /\ [][NextSuggest]_vars

\* the two routes in one process, each with clients of its own: requests
\* for one key per route, every upstream call answered one of two payloads
\* or timed out
RoutesBodies == { Obj(Str(Ely), Str(<< "N", "V" >>), Undefined) }

RoutesParams == { Str(<< "e", "l" >>) }

RoutesUpstreamContents == { Str(Sunny), Str(Rain) }

RoutesSuggestContents ==
  { Text("json", Arr(<< Str(ElyNVZip) >>)), Text("", Arr(<< Str(ElyNV) >>)) }

RoutesTicks == { WEATHER_CACHE_TTL - 1 }

InitBoth ==
  /\ impl = "part_000"
  /\ InitRoutes

NextBoth ==
  \/ \E r \in WeatherReqs, body \in RoutesBodies : Handle(r, body)
  \/ \E r \in WeatherReqs : FetchFails(r, "TimeoutError")
  \/ \E r \in WeatherReqs, c \in RoutesUpstreamContents : UpstreamAnswers(r, c)
  \/ \E r \in SuggestReqs, param \in RoutesParams : SuggestHandle(r, param)
  \/ \E r \in SuggestReqs : SuggestFetchFails(r, "TimeoutError")
  \/ \E r \in SuggestReqs, c \in RoutesSuggestContents : SuggestAnswers(r, c)
  \/ \E d \in RoutesTicks : Tick(d)

SpecBoth == InitBoth /\ [][NextBoth]_vars

\* `process.env.OPENROUTER_API_KEY` is read anew by every request of either
\* route: the environment may hold another value at the next request
SetApiKey(k) ==
  /\ k # apiKey
  /\ apiKey' = k
  /\ UNCHANGED << now, ticks, weatherVars, suggestVars, pageVars >>

\* the two routes in a process whose environment changes between requests:
\* requests for one key per route, every upstream call answered or timed out,
\* the clock stepping past the weather TTL
EnvUpstreamContents == { Str(Sunny) }

EnvSuggestContents == { Text("json", Arr(<< Str(ElyNVZip) >>)) }

EnvTicks == { WEATHER_CACHE_TTL }

InitEnv ==
  /\ impl = "part_000"
  /\ InitRoutes

NextEnv ==
  \/ \E r \in WeatherReqs, body \in RoutesBodies : Handle(r, body)
  \/ \E r \in WeatherReqs : FetchFails(r, "TimeoutError")
  \/ \E r \in WeatherReqs, c \in EnvUpstreamContents : UpstreamAnswers(r, c)
  \/ \E r \in SuggestReqs, param \in RoutesParams : SuggestHandle(r, param)
  \/ \E r \in SuggestReqs : SuggestFetchFails(r, "TimeoutError")
  \/ \E r \in SuggestReqs, c \in EnvSuggestContents : SuggestAnswers(r, c)
  \/ \E k \in ApiKeys : SetApiKey(k)
  \/ \E d \in EnvTicks : Tick(d)

SpecEnv == InitEnv /\ [][NextEnv]_vars

\* the weather route with clients whose accepted bodies put the key to the
\* test: dashes in city and zip, a city named "zip", parts that read like a
\* state or a zip, an empty zip, letter case
KeyBodies ==
  { Obj(Str(Ely), Str(<< "N", "V" >>), Undefined),
    Obj(Str(<< "E", "L", "Y" >>), Str(<< "n", "v" >>), Str(<< >>)),
    Obj(Str(Ely), Str(<< "N", "V" >>), Str(ZipEly)),
    Obj(Undefined, Undefined, Str(ZipEly)),
    Obj(Str(<< >>), Str(<< "N", "V" >>), Str(ZipEly)),
    Obj(Str(<< "z", "i", "p" >>), Str(<< "N", "V" >>), Undefined),
    Obj(Str(<< "z", "i", "p" >>), Str(<< "N", "V" >>), Str(ZipEly)),
    Obj(Str(<< "a", "-", "n", "v" >>), Str(<< "C", "A" >>), Undefined),
    Obj(Str(<< "a" >>), Str(<< "N", "V" >>), Str(<< "C", "A" >>)),
    Obj(Str(<< "a" >>), Str(<< "N", "V" >>), Str(<< "c", "a" >>)),
    Obj(Str(<< "a", "-", "N", "V" >>), Str(<< "c", "a" >>), Str(<< "1", "-", "2" >>)),
    Obj(Str(<< "a" >>), Str(<< "N", "V" >>), Str(<< "C", "A", "-", "1", "-", "2" >>)) }

KeyUpstreamContents == { Str(Sunny), Str(Rain) }

InitKeys ==
  /\ impl = "part_000"
  /\ InitRoutes

NextKeys ==
  \/ \E r \in WeatherReqs, body \in KeyBodies : Handle(r, body)
  \/ \E r \in WeatherReqs, c \in KeyUpstreamContents : UpstreamAnswers(r, c)

SpecKeys == InitKeys /\ [][NextKeys]_vars

\* the two routes in one process with every kind of outcome: a request that
\* is accepted and one that is not, every way an upstream call fails, one
\* payload, and a clock step that makes the entries of both caches stale
FrameBodies ==
  { Obj(Str(Ely), Str(<< "N", "V" >>), Undefined),
    Obj(Str(Ely), Str(<< "Z", "Z" >>), Undefined) }

FrameParams == { Str(<< "e" >>), Str(<< "e", "l" >>) }

FrameUpstreamContents == { Undefined, Str(Sunny) }

FrameSuggestContents ==
  { Undefined, Text("", NotJson), Text("json", Arr(<< Str(ElyNVZip) >>)) }

FrameTicks == { SUGGEST_CACHE_TTL }

InitFrame ==
  /\ impl = "part_000"
  /\ InitRoutes

NextFrame ==
  \/ \E r \in WeatherReqs, body \in FrameBodies : Handle(r, body)
  \/ \E r \in WeatherReqs : FetchFails(r, "TimeoutError")
  \/ \E r \in WeatherReqs : UpstreamError(r, "read")
  \/ \E r \in WeatherReqs : UpstreamUnreadable(r, "SyntaxError")
  \/ \E r \in WeatherReqs, c \in FrameUpstreamContents : UpstreamAnswers(r, c)
  \/ \E r \in SuggestReqs, param \in FrameParams : SuggestHandle(r, param)
  \/ \E r \in SuggestReqs : SuggestFetchFails(r, "TimeoutError")
  \/ \E r \in SuggestReqs : SuggestUpstreamError(r)
  \/ \E r \in SuggestReqs, c \in FrameSuggestContents : SuggestAnswers(r, c)
  \/ \E d \in FrameTicks : Tick(d)

SpecFrame == InitFrame /\ [][NextFrame]_vars

\* the page with both routes behind it, the page being their only client
InitPage ==
  /\ impl = "part_000"
  /\ InitRoutes

NextPage ==
  \/ \E v \in PageInputs : HandleInputChange(v)
  \/ \E r \in SuggestReqs : DebounceFires(r)
  \/ \E r \in SuggestReqs : SuggestArrives(r)
  \/ \E r \in SuggestReqs : SuggestFetchFails(r, "TimeoutError")
  \/ \E r \in SuggestReqs, c \in PageSuggestContents : SuggestAnswers(r, c)
  \/ \E r \in SuggestReqs : SuggestionsArrive(r)
  \/ \E r \in SuggestReqs : SuggestionsFail(r)
  \/ \E r \in SuggestReqs : SuggestionsDropped(r)
  \/ \E i \in 1..6 : SelectCity(i)
  \/ \E r \in WeatherReqs : HandleSubmit(r)
  \/ \E r \in WeatherReqs : WeatherRequestArrives(r)
  \/ \E r \in WeatherReqs : FetchFails(r, "TimeoutError")
  \/ \E r \in WeatherReqs, c \in PageUpstreamContents : UpstreamAnswers(r, c)
  \/ \E r \in WeatherReqs : WeatherArrives(r)
  \/ \E r \in WeatherReqs : WeatherFails(r)
  \/ \E r \in WeatherReqs : WeatherDropped(r)

SpecPage == InitPage /\ [][NextPage]_vars

\* the page used with the keyboard and the mouse, both routes behind it: one
\* value typed, one suggestion offered, every upstream call answered
EnterInputs == { Ely \o << ",", " ", "n", "v" >> }

InitEnter ==
  /\ impl = "part_000"
  /\ InitRoutes

NextEnter ==
  \/ \E v \in EnterInputs : HandleInputChange(v)
  \/ \E r \in SuggestReqs : DebounceFires(r)
  \/ \E r \in SuggestReqs : SuggestArrives(r)
  \/ \E r \in SuggestReqs, c \in PageSuggestContents : SuggestAnswers(r, c)
  \/ \E r \in SuggestReqs : SuggestionsArrive(r)
  \/ \E r \in SuggestReqs : SuggestionsDropped(r)
  \/ \E i \in 1..6 : SelectCity(i)
  \/ \E key \in Keys, r \in WeatherReqs : HandleKeyDown(key, r)
  \/ \E r \in WeatherReqs : HandleSubmit(r)
  \/ \E r \in WeatherReqs : WeatherRequestArrives(r)
  \/ \E r \in WeatherReqs, c \in PageUpstreamContents : UpstreamAnswers(r, c)
  \/ \E r \in WeatherReqs : WeatherArrives(r)
  \/ \E r \in WeatherReqs : WeatherFails(r)
  \/ \E r \in WeatherReqs : WeatherDropped(r)

SpecEnter == InitEnter /\ [][NextEnter]_vars

\* the page while the user types and picks suggestions, with the suggestion
\* route behind it: a value too short, one that is long enough only with
\* the spaces around it trimmed off, and two that are long enough
TypingInputs ==
  { << "e" >>,
    << " ", "e", " " >>,
    << " ", "e", "l" >>,
    Ely \o << ",", " ", "n", "v" >> }

\* what the upstream answers a suggestion request while the user types
TypingSuggestContents ==
  { Text("json", Arr(<< Str(ElyNVZip) >>)), Text("", Arr(<< Str(ElyNV) >>)) }

InitTyping ==
  /\ impl = "part_000"
  /\ InitRoutes

NextTyping ==
  \/ \E v \in TypingInputs : HandleInputChange(v)
  \/ \E r \in SuggestReqs : DebounceFires(r)
  \/ \E r \in SuggestReqs : SuggestArrives(r)
  \/ \E r \in SuggestReqs : SuggestFetchFails(r, "TimeoutError")
  \/ \E r \in SuggestReqs, c \in TypingSuggestContents : SuggestAnswers(r, c)
  \/ \E r \in SuggestReqs : SuggestionsArrive(r)
  \/ \E r \in SuggestReqs : SuggestionsFail(r)
  \/ \E r \in SuggestReqs : SuggestionsDropped(r)
  \/ \E i \in 1..6 : SelectCity(i)

SpecTyping == InitTyping /\ [][NextTyping]_vars

\* the page while the user types a location and submits it, the fetch of
\* /api/weather failing each time: what is typed, in the accepted shapes and
\* in others
SubmitInputs ==
  {
    << "8", "0", "2", "0", "2" >>,   \* five digits
    << " ", "8", "0", "2", "0", "2", " " >>,   \* five digits with spaces around
    << "8", "0", "2", "0" >>,   \* four digits
    << "D", "e", "n", "v", "e", "r", ",", " ", "C", "O" >>,   \* city and state
    << "D", "e", "n", "v", "e", "r", ",", " ", "C", "O", " ", "8", "0", "2", "0", "2" >>,   \* city, state and zip
    << "d", "e", "n", "v", "e", "r", " ", ",", " ", "c", "o" >>,   \* lower case, a space before the comma
    << "D", "e", "n", "v", "e", "r", ",", "c", "o", "\t", "8", "0", "2", "0", "2" >>,   \* no space after the comma, a tab before the zip
    << "a", ",", " ", "b", ",", " ", "C", "O" >>,   \* two commas
    << "g", "i", "b", "b", "e", "r", "i", "s", "h" >>,   \* no comma
    << ",", " ", "C", "O" >>,   \* nothing before the comma
    << "D", "e", "n", "v", "e", "r", ",", " ", "C" >>,   \* one letter
    << "D", "e", "n", "v", "e", "r", ",", " ", "C", "o", "l", "o", "r", "a", "d", "o" >>,   \* a state's name
    << "D", "e", "n", "v", "e", "r", ",", " ", "C", "O", "8", "0", "2", "0", "2" >>,   \* no space before the zip
    << "D", "e", "n", "v", "e", "r", ",", " ", "C", "O", " ", "8", "0", "2", "0" >>,   \* a zip of four digits
    << "D", "e", "n", "v", "e", "r", ",", " ", "1", "2" >>,   \* two digits for a state
    << "D", "e", "n", "v", "e", "r", ",", " ", "C", "1" >>,   \* a letter and a digit for a state
    << "D", "e", "n", "v", "e", "r", ",", " ", "1", "2", " ", "8", "0", "2", "0", "2" >>,   \* two digits for a state, and a zip
    << "D", "e", "n", "v", "e", "r", ",", " ", "Z", "Z" >>,   \* two letters that are no state
    << "D", "e", "n", "v", "e", "r", ",", " ", "z", "z", " ", "8", "0", "2", "0", "2" >> }   \* two letters that are no state, and a zip

InitSubmit ==
  /\ impl = "part_000"
  /\ InitRoutes

NextSubmit ==
  \/ \E v \in SubmitInputs : HandleInputChange(v)
  \/ \E r \in WeatherReqs : HandleSubmit(r)
  \/ \E r \in WeatherReqs : WeatherFails(r)

SpecSubmit == InitSubmit /\ [][NextSubmit]_vars

(***************************************************************************)
(* Weather route: what the claims speak of.                                *)
(***************************************************************************)
\* the request got past validation to the cache lookup
Accepted(req) == req.cacheKey # << >>

\* the request has been answered
Done(req) == req.pc = "done"

\* request r is handled in this step, from its arrival on
Handled(r) == wreq[r].pc = "idle" /\ wreq'[r].pc # "idle"

\* two strings are equal up to the case of their letters
EqualIgnoringCase(s, t) ==
  /\ Len(s) = Len(t)
  /\ \A i \in 1..Len(s) :
       \/ s[i] = t[i]
       \/ \E n \in 1..26 : { s[i], t[i] } = { UpperLetters[n], LowerLetters[n] }

\* two {city, state} bodies that differ at most in the case of city and state,
\* with the same optional zip
SameLocationIgnoringCase(b1, b2) ==
  /\ b1.kind = "object" /\ b2.kind = "object"
  /\ b1.city.t = "string" /\ b2.city.t = "string"
  /\ b1.state.t = "string" /\ b2.state.t = "string"
  /\ EqualIgnoringCase(b1.city.s, b2.city.s)
  /\ EqualIgnoringCase(b1.state.s, b2.state.s)
  /\ b1.zip = b2.zip

(***************************************************************************)
(* C1.  Weather route, any key, any sequence of requests: a request whose  *)
(* key has an entry written less than 15 minutes ago is answered           *)
(* cached=true without an upstream call; a request whose key has no entry, *)
(* or one 15 minutes old or older, goes upstream (given the credential) and*)
(* a 200 answer then carries cached=false after exactly one upstream call. *)
(***************************************************************************)
C1_Lookup(r) ==
  LET req == wreq'[r]
      key == req.cacheKey
      young == key \in DOMAIN weatherCache
                 /\ now - weatherCache[key].timestamp < 900000
  IN  (Handled(r) /\ Accepted(req)) =>
        IF young
        THEN Done(req) /\ req.status = 200 /\ req.cached /\ req.calls = 0
        ELSE \/ req.pc = "fetching" /\ req.calls = 1
             \/ Done(req) /\ req.cause = "credential" /\ req.calls = 0

C1_Answer(req) ==
  (Done(req) /\ req.status = 200) =>
     IF req.cached THEN req.calls = 0 ELSE req.calls = 1

C1_CacheWithinTTL ==
  [][ \A r \in WeatherReqs : C1_Lookup(r) /\ C1_Answer(wreq'[r]) ]_vars

\* an entry one millisecond short of 15 minutes old is served from the cache
C1_Witness ==
  \E r \in WeatherReqs :
    /\ Done(wreq[r]) /\ wreq[r].cached /\ wreq[r].calls = 0
    /\ now - weatherCache[wreq[r].cacheKey].timestamp = 899999

\* an entry exactly 15 minutes old is fetched again, once
C1_WitnessStale ==
  \E r, q \in WeatherReqs :
    /\ r # q
    /\ Done(wreq[q]) /\ wreq[q].status = 200 /\ ~wreq[q].cached
    /\ Done(wreq[r]) /\ wreq[r].status = 200 /\ ~wreq[r].cached
    /\ wreq[r].cacheKey = wreq[q].cacheKey
    /\ wreq[r].calls = 1
    /\ weatherCache[wreq[r].cacheKey].timestamp = 900000

(***************************************************************************)
(* C2.  Every weather request ends with one outcome, chosen by the first   *)
(* failure it meets.  As claimed: validation failure 400, missing          *)
(* credential 500 with a descriptive message, upstream non-2xx 502,        *)
(* upstream timeout 504, any other exception a generic 500, no failure 200 *)
(* with {report, cached}.                                                  *)
(***************************************************************************)
C2_Original ==
  \A r \in WeatherReqs :
    Done(wreq[r]) =>
      \/ wreq[r].cause = "validation" /\ wreq[r].status = 400
      \/ wreq[r].cause = "credential" /\ wreq[r].status = 500
      \/ wreq[r].cause = "non2xx" /\ wreq[r].status = 502
      \/ wreq[r].cause = "timeout" /\ wreq[r].status = 504
      \/ wreq[r].cause = "exception" /\ wreq[r].status = 500
      \/ wreq[r].cause = "none" /\ wreq[r].status = 200

(***************************************************************************)
(* C2, amended.  The same mapping, with the two outcomes the list leaves   *)
(* out: a 2xx upstream answer without report text gives 502, and a non-2xx *)
(* answer gives 502 only when its body is read: a timeout while reading it *)
(* gives 504 and any other exception while reading it 500.  Validation     *)
(* comes before the credential, the credential before the upstream call.   *)
(***************************************************************************)
C2_Answer(req) ==
  /\ req.cause \in { "validation", "credential", "non2xx", "empty", "timeout",
                     "exception", "none" }
  /\ req.cause = "validation" => req.status = 400
  /\ req.cause = "credential" =>
       req.status = 500 /\ req.error = "API key not configured"
  /\ req.cause = "non2xx" =>
       req.status = (IF req.thrown = "" THEN 502
                     ELSE IF req.thrown = "TimeoutError" THEN 504 ELSE 500)
  /\ req.cause = "empty" => req.status = 502
  /\ req.cause = "timeout" => req.status = 504
  /\ req.cause = "exception" =>
       req.status = 500 /\ req.error = "Something went wrong"
  /\ req.cause = "none" <=> req.status = 200
  /\ req.status = 200 => req.report # << >> /\ req.error = ""
  /\ req.status # 200 => req.report = << >> /\ req.error # "" /\ ~req.cached

C2_Order(req) ==
  /\ (req.body.kind = "object" /\ ~Validates(req.body)) =>
        req.cause = "validation" /\ req.calls = 0
  /\ (Accepted(req) /\ ~req.cached /\ CredentialMissing) =>
        req.cause = "credential" /\ req.calls = 0
  /\ req.cause \in { "non2xx", "empty", "timeout" } =>
        Accepted(req) /\ req.calls = 1

C2_FailureMapping ==
  \A r \in WeatherReqs : Done(wreq[r]) => C2_Answer(wreq[r]) /\ C2_Order(wreq[r])

\* a 2xx upstream answer without report text is answered 502
C2_Witness ==
  \E r \in WeatherReqs :
    Done(wreq[r]) /\ wreq[r].cause = "empty" /\ wreq[r].status = 502

(***************************************************************************)
(* C3.  Two accepted {city, state} requests that differ only in the letter *)
(* case of city or state (same optional zip) have the same cache key, and  *)
(* the second, arriving while the entry the first wrote is younger than    *)
(* the TTL, is a cache hit.                                                *)
(***************************************************************************)
C3_SameKey ==
  \A r, q \in WeatherReqs :
    ( /\ Handled(r)
      /\ Accepted(wreq'[r]) /\ Accepted(wreq'[q])
      /\ SameLocationIgnoringCase(wreq'[r].body, wreq'[q].body) )
    => wreq'[r].cacheKey = wreq'[q].cacheKey

C3_SecondHits ==
  \A r, q \in WeatherReqs :
    ( /\ Handled(r) /\ q # r
      /\ Done(wreq[q]) /\ wreq[q].status = 200 /\ ~wreq[q].cached
      /\ SameLocationIgnoringCase(wreq[q].body, wreq'[r].body)
      /\ now - weatherCache[wreq[q].cacheKey].timestamp < 900000 )
    => /\ Done(wreq'[r]) /\ wreq'[r].status = 200 /\ wreq'[r].cached
       /\ wreq'[r].report = weatherCache[wreq[q].cacheKey].data

C3_KeyIgnoresCase == [][ C3_SameKey /\ C3_SecondHits ]_vars

\* the second of two requests that differ in case is served from the cache
C3_Witness ==
  \E r, q \in WeatherReqs :
    /\ wreq[q].body # wreq[r].body
    /\ SameLocationIgnoringCase(wreq[q].body, wreq[r].body)
    /\ Done(wreq[q]) /\ wreq[q].status = 200 /\ ~wreq[q].cached
    /\ Done(wreq[r]) /\ wreq[r].status = 200 /\ wreq[r].cached

(***************************************************************************)
(* C4.  A city+state request whose state, upper-cased, is not one of the   *)
(* 51 codes is answered 400 in whatever case the state was sent, makes no  *)
(* upstream call and neither reads nor changes the cache; a state that     *)
(* upper-cases to one of the 51 codes is accepted in any case.             *)
(***************************************************************************)
\* the body is handled in city+state mode and carries a state string
CityStateMode(body) ==
  /\ body.kind = "object"
  /\ body.state.t = "string"
  /\ impl = "part_000" => ~(Truthy(body.zip) /\ ~Truthy(body.city))

\* city and zip of the body are what the schema asks for
CityAndZipOk(body) ==
  /\ body.city.t = "string"
  /\ Len(body.city.s) \in 1..100
  /\ body.zip.t \in { "undefined", "string" }

C4_Step(r) ==
  LET req == wreq'[r]
  IN  (Handled(r) /\ CityStateMode(req.body)) =>
        IF toUpperCase(req.body.state.s) \in US_STATES
        THEN CityAndZipOk(req.body) => Accepted(req) /\ req.status # 400
        ELSE /\ Done(req) /\ req.status = 400 /\ req.error = "Invalid input"
             /\ req.calls = 0
             /\ ~Accepted(req)
             /\ weatherCache' = weatherCache

C4_StateCodeChecked == [][ \A r \in WeatherReqs : C4_Step(r) ]_vars

\* a lower-case unknown state is rejected while the cache holds an entry
C4_Witness ==
  \E r \in WeatherReqs :
    /\ Done(wreq[r]) /\ wreq[r].status = 400
    /\ wreq[r].body.kind = "object"
    /\ wreq[r].body.state = Str(<< "z", "z" >>)
    /\ weatherCache # << >>

(***************************************************************************)
(* C5.  Every Location the weather route accepts has a zip that, if        *)
(* present, is exactly 5 digits, in zip-only mode and in city+state+zip    *)
(* mode alike.                                                             *)
(***************************************************************************)
\* the zip of the Location an accepted request was parsed into
LocationZip(req) ==
  IF impl = "part_000" THEN req.body.zip ELSE Undefined

C5_ZipFiveDigits ==
  \A r \in WeatherReqs :
    (Accepted(wreq[r]) /\ LocationZip(wreq[r]).t # "undefined") =>
       /\ LocationZip(wreq[r]).t = "string"
       /\ Len(LocationZip(wreq[r]).s) = 5
       /\ \A i \in 1..5 : LocationZip(wreq[r]).s[i] \in Digits

(***************************************************************************)
(* Suggestion route: what the claims speak of.                             *)
(***************************************************************************)
\* suggestion request r is handled in this step, from its arrival on
SuggestHandled(r) == sreq[r].pc = "idle" /\ sreq'[r].pc # "idle"

\* the ways an upstream call or the reading of its answer fails
SuggestFailures ==
  { "credential", "non2xx", "timeout", "exception", "empty", "notjson", "notarray" }

(***************************************************************************)
(* C6.  The suggestion route never answers with an error status: whatever  *)
(* the query and whatever the upstream does, the response is status 200    *)
(* with a suggestions list, and the list is empty when the credential is   *)
(* missing, the upstream answers non-2xx, times out or fails, or its       *)
(* content is empty, not JSON or not an array.                             *)
(***************************************************************************)
C6_NeverAnError ==
  \A r \in SuggestReqs :
    Done(sreq[r]) =>
      /\ sreq[r].status = 200
      /\ sreq[r].cause \in SuggestFailures \cup { "short", "hit", "none" }
      /\ sreq[r].cause \in SuggestFailures => sreq[r].suggestions = << >>

\* content that is not JSON is answered 200 with an empty list
C6_Witness ==
  \E r \in SuggestReqs :
    /\ Done(sreq[r]) /\ sreq[r].cause = "notjson"
    /\ sreq[r].status = 200 /\ sreq[r].suggestions = << >>

(***************************************************************************)
(* C7.  Every suggestions list the route returns, computed or served from  *)
(* the cache, and every list in the suggestion cache has at most 6         *)
(* entries, each of the shape "City, ST" or "City, ST ZIP"; a computed     *)
(* list holds, in the upstream array's order, the first 6 of its matching  *)
(* entries.                                                                *)
(***************************************************************************)
C7_Shaped(list) ==
  /\ Len(list) <= 6
  /\ \A i \in DOMAIN list : MatchesSuggestion(list[i])

\* list holds the first 6 matching entries of items, in their order
C7_IsMatchingPrefix(list, items) ==
  LET matching == { i \in DOMAIN items : IsSuggestion(items[i]) }
      rank(i)  == Cardinality({ m \in matching : m <= i })
  IN  /\ Len(list) = IF Cardinality(matching) < 6 THEN Cardinality(matching) ELSE 6
      /\ \A i \in matching : rank(i) <= 6 => list[rank(i)] = items[i].s

\* the lists returned and the lists stored in this step
C7_Step ==
  /\ \A r \in SuggestReqs :
       (~Done(sreq[r]) /\ Done(sreq'[r])) =>
         /\ C7_Shaped(sreq'[r].suggestions)
         /\ sreq'[r].cause = "none" =>
              C7_IsMatchingPrefix(sreq'[r].suggestions, sreq'[r].upstream)
  /\ \A k \in DOMAIN suggestCache' :
       (k \notin DOMAIN suggestCache \/ suggestCache'[k] # suggestCache[k]) =>
         C7_Shaped(suggestCache'[k].data)

C7_SuggestionsShaped == [][ C7_Step ]_vars

\* an upstream array with more than 6 matching entries among others is cut to
\* its first 6 matching ones
C7_Witness ==
  \E r \in SuggestReqs :
    /\ Done(sreq[r]) /\ sreq[r].cause = "none"
    /\ Len(sreq[r].suggestions) = 6
    /\ Cardinality({ i \in DOMAIN sreq[r].upstream :
                       IsSuggestion(sreq[r].upstream[i]) }) > 6
    /\ \E i \in DOMAIN sreq[r].upstream : ~IsSuggestion(sreq[r].upstream[i])

(***************************************************************************)
(* C8.  A suggestion request whose query is absent or, trimmed, shorter    *)
(* than 2 characters is answered an empty list at once: no upstream call,  *)
(* the cache neither read nor written.                                     *)
(***************************************************************************)
C8_Step(r) ==
  LET req == sreq'[r]
  IN  (SuggestHandled(r) /\ (req.q.t = "null" \/ Len(trim(req.q.s)) < 2)) =>
        /\ Done(req) /\ req.suggestions = << >>
        /\ req.calls = 0
        /\ req.cacheKey = << >>
        /\ suggestCache' = suggestCache

C8_ShortQuery == [][ \A r \in SuggestReqs : C8_Step(r) ]_vars

\* a query of one letter between spaces is answered at once while the cache
\* holds an entry
C8_Witness ==
  \E r \in SuggestReqs :
    /\ Done(sreq[r]) /\ sreq[r].q = Str(<< " ", "e", " " >>)
    /\ sreq[r].suggestions = << >> /\ sreq[r].calls = 0
    /\ suggestCache # << >>

(***************************************************************************)
(* C9.  Suggestion route: a request whose lower-cased, trimmed query has   *)
(* an entry written less than 24 hours ago is answered that entry's list   *)
(* without an upstream call; an entry 24 hours old or older counts as      *)
(* absent and the request goes upstream.  Queries that differ only in      *)
(* letter case share one entry.                                            *)
(***************************************************************************)
C9_Lookup(r) ==
  LET req == sreq'[r]
      key == req.cacheKey
      young == key \in DOMAIN suggestCache
                 /\ now - suggestCache[key].timestamp < 86400000
  IN  (SuggestHandled(r) /\ req.cause # "short") =>
        IF young
        THEN /\ Done(req) /\ req.suggestions = suggestCache[key].data
             /\ req.calls = 0
        ELSE \/ req.pc = "fetching" /\ req.calls = 1
             \/ Done(req) /\ req.cause = "credential" /\ req.calls = 0

C9_SharedKey ==
  \A r, p \in SuggestReqs :
    ( /\ SuggestHandled(r)
      /\ sreq'[r].cacheKey # << >> /\ sreq'[p].cacheKey # << >>
      /\ EqualIgnoringCase(trim(sreq'[r].q.s), trim(sreq'[p].q.s)) )
    => sreq'[r].cacheKey = sreq'[p].cacheKey

C9_SuggestCacheWithinTTL ==
  [][ (\A r \in SuggestReqs : C9_Lookup(r)) /\ C9_SharedKey ]_vars

\* an entry one millisecond short of 24 hours old, written for the query in
\* another case, is served from the cache
C9_Witness ==
  \E r, p \in SuggestReqs :
    /\ Done(sreq[p]) /\ sreq[p].cause = "none"
    /\ Done(sreq[r]) /\ sreq[r].cause = "hit" /\ sreq[r].calls = 0
    /\ trim(sreq[r].q.s) # trim(sreq[p].q.s)
    /\ sreq[r].cacheKey = sreq[p].cacheKey
    /\ now - suggestCache[sreq[r].cacheKey].timestamp = 86399999

(***************************************************************************)
(* C10.  No layer retries.  A weather request and a suggestion request     *)
(* each send at most one upstream request in their whole life, also when   *)
(* that request fails or times out, and once answered they send none.  The *)
(* page sends a weather request only when the form is submitted: the step  *)
(* in which an answer or a failure of a weather request reaches the page,  *)
(* an error among them, sends none.                                        *)
(***************************************************************************)
\* the weather requests the page has sent
C10_Sent(p) == { r \in WeatherReqs : p[r].state # "none" }

C10_OneCall ==
  /\ \A r \in WeatherReqs :
       /\ wreq'[r].calls <= 1
       /\ wreq[r].pc \in { "done", "closed" } => wreq'[r].calls = wreq[r].calls
  /\ \A r \in SuggestReqs :
       /\ sreq'[r].calls <= 1
       /\ sreq[r].pc \in { "done", "closed" } => sreq'[r].calls = sreq[r].calls

C10_PageSendsOnSubmitOnly ==
  /\ C10_Sent(posts') # C10_Sent(posts) => \E r \in WeatherReqs : HandleSubmit(r)
  /\ (\E r \in WeatherReqs : posts[r].state = "inflight" /\ posts'[r].state # "inflight")
       => C10_Sent(posts') = C10_Sent(posts)

C10_NoRetry == [][ C10_OneCall /\ C10_PageSendsOnSubmitOnly ]_vars

\* the page has shown the error of a weather request whose one upstream call
\* timed out, and has sent nothing since
C10_Witness ==
  \E r \in WeatherReqs :
    /\ posts[r].state = "answered"
    /\ wreq[r].pc = "closed" /\ wreq[r].calls = 1
    /\ page.error = "Request timed out" /\ ~page.loading
    /\ C10_Sent(posts) = { r }

(***************************************************************************)
(* C11.  Every weather request that has arrived is eventually answered,    *)
(* given that each upstream call settles (the 30 s timeout at the latest), *)
(* whatever the other requests do.  It is answered once, by a report or by *)
(* an error, along Received, Validated, CacheLookup, then a hit answered   *)
(* at once or a miss followed by one upstream call; a pending upstream     *)
(* call can always end by its timeout, so no request waits on another.     *)
(***************************************************************************)
\* the terminal state of an answered request: Respond or ErrorRespond
C11_Terminal(req) ==
  IF req.status = 200
  THEN req.cause = "none" /\ req.error = ""
  ELSE req.cause # "none" /\ req.error # "" /\ req.report = << >> /\ ~req.cached

C11_Path(r) ==
  /\ wreq'[r].pc \in { "idle", "fetching", "done" }
  /\ Done(wreq[r]) => wreq'[r] = wreq[r]
  /\ wreq[r].pc = "fetching" => wreq'[r].pc \in { "fetching", "done" }
  /\ Done(wreq'[r]) => C11_Terminal(wreq'[r])
  /\ Handled(r) =>
       /\ wreq'[r].pc = "fetching" =>
            /\ Validates(wreq'[r].body)
            /\ wreq'[r].cacheKey = CacheKey(wreq'[r].body)
            /\ ~IsFresh(CacheGet(weatherCache, wreq'[r].cacheKey), now)
            /\ wreq'[r].calls = 1
       /\ Done(wreq'[r]) /\ wreq'[r].status = 200 =>
            /\ Validates(wreq'[r].body)
            /\ IsFresh(CacheGet(weatherCache, wreq'[r].cacheKey), now)
            /\ wreq'[r].cached /\ wreq'[r].calls = 0
  /\ wreq[r].pc = "fetching" /\ Done(wreq'[r]) =>
       /\ wreq'[r].calls = 1 /\ ~wreq'[r].cached
       /\ \A q \in WeatherReqs \ { r } : wreq'[q] = wreq[q]

C11_NoWaiting ==
  \A r \in WeatherReqs :
    wreq[r].pc = "fetching" => ENABLED FetchFails(r, "TimeoutError")

C11_EventuallyAnswered ==
  /\ \A r \in WeatherReqs : (wreq[r].pc # "idle") ~> Done(wreq[r])
  /\ [][ \A r \in WeatherReqs : C11_Path(r) ]_vars
  /\ []C11_NoWaiting

\* two requests for one key missed the cache together and each made its
\* upstream call; one was answered a report, the other a timeout error
C11_Witness ==
  /\ Done(wreq[1]) /\ Done(wreq[2])
  /\ wreq[1].cacheKey = wreq[2].cacheKey /\ Accepted(wreq[1])
  /\ wreq[1].calls = 1 /\ wreq[2].calls = 1
  /\ wreq[1].status = 200 /\ wreq[2].status = 504
  /\ ticks = 0

(***************************************************************************)
(* C12.  Cache writes are last-writer-wins in both routes.  A cache        *)
(* changes only in the step in which a request's successful upstream call  *)
(* is answered, and that step replaces the entry of the request's key by   *)
(* the pair of that request's payload and the time of the write, whatever  *)
(* entry another request for the key wrote before; the entries of other    *)
(* keys stay.  A request that finds the entry younger than the TTL is      *)
(* served the payload it holds, which is the last written.                 *)
(***************************************************************************)
\* request r of the weather route writes its entry in this step
C12_WeatherWrites(r) ==
  wreq[r].pc = "fetching" /\ Done(wreq'[r]) /\ wreq'[r].status = 200

\* request r of the suggestion route writes its entry in this step
C12_SuggestWrites(r) ==
  sreq[r].pc = "fetching" /\ Done(sreq'[r]) /\ sreq'[r].cause = "none"

\* cache has become cache2 by a write of exactly << data, timestamp >> at key
C12_Overwritten(cache, cache2, key, data, timestamp) ==
  /\ DOMAIN cache2 = DOMAIN cache \cup { key }
  /\ cache2[key] = [ data |-> data, timestamp |-> timestamp ]
  /\ \A k \in DOMAIN cache \ { key } : cache2[k] = cache[k]

C12_Step ==
  /\ \A r \in WeatherReqs :
       /\ C12_WeatherWrites(r) =>
            C12_Overwritten(weatherCache, weatherCache', wreq[r].cacheKey,
                            wreq'[r].report, now)
       /\ Handled(r) /\ Accepted(wreq'[r])
            /\ wreq'[r].cacheKey \in DOMAIN weatherCache
            /\ now - weatherCache[wreq'[r].cacheKey].timestamp < WEATHER_CACHE_TTL =>
              /\ Done(wreq'[r]) /\ wreq'[r].cached
              /\ wreq'[r].report = weatherCache[wreq'[r].cacheKey].data
  /\ weatherCache' # weatherCache => \E r \in WeatherReqs : C12_WeatherWrites(r)
  /\ \A r \in SuggestReqs :
       /\ C12_SuggestWrites(r) =>
            C12_Overwritten(suggestCache, suggestCache', sreq[r].cacheKey,
                            sreq'[r].suggestions, now)
       /\ SuggestHandled(r) /\ sreq'[r].cacheKey # << >>
            /\ sreq'[r].cacheKey \in DOMAIN suggestCache
            /\ now - suggestCache[sreq'[r].cacheKey].timestamp < SUGGEST_CACHE_TTL =>
              /\ Done(sreq'[r]) /\ sreq'[r].cause = "hit"
              /\ sreq'[r].suggestions = suggestCache[sreq'[r].cacheKey].data
  /\ suggestCache' # suggestCache => \E r \in SuggestReqs : C12_SuggestWrites(r)

C12_LastWriterWins == [][ C12_Step ]_vars

\* in each route two overlapping requests for one key were answered different
\* payloads at different times, and the entry is the pair of the second write
C12_Witness ==
  /\ \A r \in WeatherReqs : Done(wreq[r]) /\ wreq[r].status = 200 /\ ~wreq[r].cached
  /\ wreq[1].cacheKey = wreq[2].cacheKey
  /\ wreq[1].report # wreq[2].report
  /\ now > 0
  /\ \E r \in 1..2 :
       weatherCache[wreq[1].cacheKey] = [ data |-> wreq[r].report, timestamp |-> now ]
  /\ \A r \in SuggestReqs : Done(sreq[r]) /\ sreq[r].cause = "none"
  /\ sreq[1].cacheKey = sreq[2].cacheKey
  /\ sreq[1].suggestions # sreq[2].suggestions
  /\ \E r \in 1..2 :
       suggestCache[sreq[1].cacheKey] = [ data |-> sreq[r].suggestions, timestamp |-> now ]

(***************************************************************************)
(* C13.  A duplicate upstream call is reachable.  Nothing joins a request  *)
(* to another request's pending call: a request that misses the cache      *)
(* starts its own upstream call also while another request for the same    *)
(* key is waiting for its answer, and a request whose upstream call ends   *)
(* with a report is answered 200, cached=false, with that report, also     *)
(* when another request has written the key's entry meanwhile.  So two     *)
(* requests for one key, with no entry at first and no time passing, both  *)
(* miss, both call the upstream and both end 200 with cached=false.        *)
(***************************************************************************)
C13_Step(r) ==
  /\ Handled(r) /\ Accepted(wreq'[r]) /\ ~CredentialMissing
       /\ ~( /\ wreq'[r].cacheKey \in DOMAIN weatherCache
             /\ now - weatherCache[wreq'[r].cacheKey].timestamp < WEATHER_CACHE_TTL ) =>
         wreq'[r].pc = "fetching" /\ wreq'[r].calls = 1
  /\ wreq[r].pc = "fetching" /\ Done(wreq'[r]) /\ wreq'[r].status = 200 =>
       /\ ~wreq'[r].cached
       /\ wreq'[r].calls = 1
       /\ wreq'[r].report # << >>
       /\ weatherCache'[wreq[r].cacheKey].data = wreq'[r].report

C13_NoCoalescing == [][ \A r \in WeatherReqs : C13_Step(r) ]_vars

\* the duplicate call: two requests for one key, no time passed since the
\* start, each with its own upstream call, each answered 200 and cached=false
C13_Witness ==
  /\ ticks = 0 /\ now = 0
  /\ wreq[1].cacheKey = wreq[2].cacheKey /\ Accepted(wreq[1])
  /\ \A r \in 1..2 :
       /\ Done(wreq[r]) /\ wreq[r].status = 200
       /\ ~wreq[r].cached /\ wreq[r].calls = 1

(***************************************************************************)
(* C14.  While the credential is absent or is the placeholder value,       *)
(* neither route sends an upstream request and neither cache changes; a    *)
(* weather request that is accepted and misses the cache is answered 500   *)
(* with the message that the key is not configured, and a suggestion       *)
(* request with a query of 2 or more characters that misses the cache is   *)
(* answered an empty list.                                                 *)
(***************************************************************************)
C14_NoCredential == apiKey \in { "", "your_openrouter_api_key_here" }

C14_Weather(r) ==
  /\ wreq'[r].calls = 0
  /\ wreq'[r].pc # "fetching"
  /\ Handled(r) /\ Accepted(wreq'[r])
       /\ ~IsFresh(CacheGet(weatherCache, wreq'[r].cacheKey), now) =>
         /\ Done(wreq'[r])
         /\ wreq'[r].status = 500
         /\ wreq'[r].error = "API key not configured"
         /\ wreq'[r].report = << >>

C14_Suggest(r) ==
  /\ sreq'[r].calls = 0
  /\ sreq'[r].pc # "fetching"
  /\ SuggestHandled(r) /\ sreq'[r].cacheKey # << >>
       /\ ~SuggestIsFresh(CacheGet(suggestCache, sreq'[r].cacheKey), now) =>
         /\ Done(sreq'[r])
         /\ sreq'[r].status = 200
         /\ sreq'[r].suggestions = << >>

C14_Step ==
  C14_NoCredential =>
    /\ \A r \in WeatherReqs : C14_Weather(r)
    /\ \A r \in SuggestReqs : C14_Suggest(r)
    /\ weatherCache' = weatherCache
    /\ suggestCache' = suggestCache

C14_CredentialBeforeUpstream == [][ C14_Step ]_vars

\* with the placeholder for a credential, a weather request was answered 500
\* and a suggestion request an empty list, both for want of the credential
C14_Witness ==
  /\ apiKey = PLACEHOLDER_KEY
  /\ \E r \in WeatherReqs :
       /\ Done(wreq[r]) /\ wreq[r].cause = "credential"
       /\ wreq[r].status = 500 /\ wreq[r].calls = 0
  /\ \E r \in SuggestReqs :
       /\ Done(sreq[r]) /\ sreq[r].cause = "credential"
       /\ sreq[r].suggestions = << >> /\ sreq[r].calls = 0
  /\ weatherCache = << >> /\ suggestCache = << >>

(***************************************************************************)
(* C15.  The report of a weather cache hit is the report that was returned *)
(* to the request whose successful upstream call wrote the entry: the text *)
(* of the upstream's first choice as it came, line break included, for     *)
(* every key and every hit within the TTL.                                 *)
(***************************************************************************)
\* request q was answered the report of its own upstream call, for key
C15_Wrote(q, key, report) ==
  /\ Done(wreq[q]) /\ wreq[q].status = 200 /\ ~wreq[q].cached
  /\ wreq[q].cacheKey = key
  /\ wreq[q].report = report

C15_Step(r) ==
  /\ Handled(r) /\ wreq'[r].cached =>
       /\ wreq'[r].status = 200
       /\ wreq'[r].report = weatherCache[wreq'[r].cacheKey].data
       /\ \E q \in WeatherReqs \ { r } :
            C15_Wrote(q, wreq'[r].cacheKey, wreq'[r].report)
  /\ wreq[r].pc = "fetching" /\ Done(wreq'[r]) /\ wreq'[r].status = 200 =>
       /\ Str(wreq'[r].report) \in UpstreamContents
       /\ weatherCache'[wreq[r].cacheKey].data = wreq'[r].report

C15_HitReportIdentical == [][ \A r \in WeatherReqs : C15_Step(r) ]_vars

\* a hit was served the report that ends with a line break, as the request
\* that wrote the entry was
C15_Witness ==
  \E r, q \in WeatherReqs :
    /\ Done(wreq[r]) /\ wreq[r].cached /\ wreq[r].report = Rain
    /\ C15_Wrote(q, wreq[r].cacheKey, Rain)

(***************************************************************************)
(* The page: what the claims speak of.                                     *)
(***************************************************************************)
\* the page sends suggestion request r in this step
SuggestSent(r) == gets[r].state = "none" /\ gets'[r].state # "none"

(***************************************************************************)
(* C16.  Page debounce.  At most one timeout is pending, and it is the one *)
(* for the latest input, of 2 or more characters after trimming; it is the *)
(* one debounceRef holds.  Every step that changes the input takes the     *)
(* pending timeout away before it has fired.  A suggestion request is sent *)
(* only by the firing of the pending timeout, one request per firing, and  *)
(* it asks for the trimmed input of that moment; so a burst of input       *)
(* changes, each arriving while the timeout of the one before is pending,  *)
(* sends at most one request, for the last value, and a value shorter than *)
(* 2 characters after trimming sends none.                                 *)
(***************************************************************************)
C16_Pending ==
  /\ Cardinality(timers) <= 1
  /\ \A t \in timers :
       /\ t.id = debounceRef
       /\ t.value = page.query
       /\ Len(trim(t.value)) >= 2

C16_Step ==
  /\ C16_Pending'
  /\ page'.query # page.query => timers \cap timers' = { }
  /\ \A r \in SuggestReqs :
       SuggestSent(r) =>
         /\ Cardinality(timers) = 1 /\ timers' = { }
         /\ gets'[r].state = "inflight"
         /\ gets'[r].q = Str(trim(page.query))
         /\ Len(trim(page.query)) >= 2
         /\ page' = page
         /\ \A p \in SuggestReqs \ { r } : ~SuggestSent(p)

C16_Debounce == [][ C16_Step ]_vars

\* a timeout was set and the next input, too short, took it away before it
\* fired: debounceRef still holds its id, nothing is pending and no request
\* has been sent
C16_Witness ==
  /\ debounceRef # NoTimer
  /\ timers = { }
  /\ \A r \in SuggestReqs : gets[r].state = "none"
  /\ Len(trim(page.query)) < 2 /\ page.query # << >>

\* the suggestion requests the page has sent
C17_Sent == { r \in SuggestReqs : gets[r].state # "none" }

\* r is the request the page sent last
C17_Latest(r) == r \in C17_Sent /\ \A p \in C17_Sent : p <= r

\* the suggestion requests whose response the page still awaits
C17_InFlight == { r \in SuggestReqs : gets[r].state = "inflight" }

\* the user changes the input in this step
C17_InputChanged ==
  /\ page'.query # page.query
  /\ page'.selectedCity = << >> /\ page'.selectedState = << >>

(***************************************************************************)
(* C17, as claimed.  At most one suggestion request that is not aborted is *)
(* in flight, and the suggestions shown always come from the most recently *)
(* sent request: while the dropdown shows a list, the request sent last is *)
(* the one whose response was applied.                                     *)
(***************************************************************************)
C17_Original ==
  /\ Cardinality(C17_InFlight) <= 1
  /\ page.showSuggestions /\ page.suggestions # << >> =>
       \E r \in SuggestReqs : C17_Latest(r) /\ gets[r].state = "applied"

(***************************************************************************)
(* C17, amended.  An input change aborts the request in flight, so at most *)
(* one request that is not aborted is in flight, it is the one sent last,  *)
(* and an aborted request stays aborted: its response is never applied.    *)
(* The list changes only when the response of the request sent last is     *)
(* applied, which sets the list to that response, or when the list is      *)
(* emptied.  The list of an earlier request stays shown while a newer      *)
(* request is pending, in flight or aborted.                               *)
(***************************************************************************)
C17_Step ==
  /\ Cardinality(C17_InFlight') <= 1
  /\ \A r \in C17_InFlight' : r = abortRef' /\ C17_Latest(r)'
  /\ C17_InputChanged => C17_InFlight' = { }
  /\ \A r \in SuggestReqs :
       /\ gets[r].state = "aborted" => gets'[r].state = "aborted"
       /\ gets[r].state # "applied" /\ gets'[r].state = "applied" =>
            /\ gets[r].state = "inflight"
            /\ C17_Latest(r)
            /\ Done(sreq[r])
            /\ page'.suggestions = sreq[r].suggestions
            /\ page'.showSuggestions = (sreq[r].suggestions # << >>)
  /\ page'.suggestions # page.suggestions =>
       \/ page'.suggestions = << >>
       \/ \E r \in SuggestReqs : gets[r].state = "inflight" /\ gets'[r].state = "applied"
  /\ ~page.showSuggestions /\ page'.showSuggestions =>
       \E r \in SuggestReqs : gets[r].state = "inflight" /\ gets'[r].state = "applied"

C17_Cancellation == [][ C17_Step ]_vars

\* the first request was aborted by an input change and its response, which
\* came all the same, was dropped; the second request's response is shown
C17_Witness ==
  /\ gets[1].state = "aborted" /\ sreq[1].pc = "closed" /\ sreq[1].calls = 1
  /\ gets[2].state = "applied"
  /\ page.showSuggestions /\ page.suggestions # << >>

\* the page sends weather request r in this step
WeatherSent(r) == posts[r].state = "none" /\ posts'[r].state = "inflight"

\* a submit ends in the parse error in this step
ParseRejected == page'.error = ParseErrorMessage /\ page.error # ParseErrorMessage

\* text is split at position i, which holds its last comma
IsLastComma(text, i) ==
  /\ i \in DOMAIN text
  /\ text[i] = ","
  /\ \A j \in (i + 1)..Len(text) : text[j] # ","

\* what stands left of position i, trimmed
LeftOf(text, i) == trim(SubSeq(text, 1, i - 1))

\* what stands right of position i, trimmed and in upper case
RightOf(text, i) == toUpperCase(trim(SubSeq(text, i + 1, Len(text))))

IsLetter(c) == IsUpper(c) \/ IsLower(c)

\* exactly 2 letters
IsTwoLetters(t) == Len(t) = 2 /\ IsLetter(t[1]) /\ IsLetter(t[2])

\* 2 letters, whitespace, 5 digits
IsTwoLettersThenZip(t) ==
  /\ Len(t) >= 8
  /\ IsLetter(t[1]) /\ IsLetter(t[2])
  /\ \A j \in 3..(Len(t) - 5) : t[j] \in Whitespace
  /\ \A j \in (Len(t) - 4)..Len(t) : t[j] \in Digits

\* the three shapes of typed input the parser is to accept
IsZipShape(text) == IsFiveDigits(trim(text))

IsCityStateShape(text) ==
  /\ ~IsZipShape(text)
  /\ \E i \in DOMAIN trim(text) :
       /\ IsLastComma(trim(text), i)
       /\ LeftOf(trim(text), i) # << >>
       /\ IsTwoLetters(RightOf(trim(text), i))

IsCityStateZipShape(text) ==
  /\ ~IsZipShape(text)
  /\ \E i \in DOMAIN trim(text) :
       /\ IsLastComma(trim(text), i)
       /\ LeftOf(trim(text), i) # << >>
       /\ IsTwoLettersThenZip(RightOf(trim(text), i))

Denver == << "D", "e", "n", "v", "e", "r" >>

CO == << "C", "O" >>

Zip80202 == << "8", "0", "2", "0", "2" >>

(***************************************************************************)
(* C18.  Typed input at submit.  Trimmed input of exactly 5 digits sends   *)
(* the body {zip}.  Otherwise, split at its last comma with a city to the  *)
(* left: a right part, trimmed and upper-cased, of 2 letters, whitespace   *)
(* and 5 digits sends {city, state, zip}, and one of exactly 2 letters     *)
(* sends {city, state} without a zip, the city being the left part trimmed *)
(* and the state in upper case.  Input of these shapes is never answered   *)
(* the parse error.  "80202", "Denver, CO" and "Denver, CO 80202" send     *)
(* {zip:"80202"}, {city:"Denver", state:"CO"} and {city:"Denver",          *)
(* state:"CO", zip:"80202"}.                                               *)
(***************************************************************************)
C18_Body(text, body) ==
  LET t == trim(text)
  IN  /\ IsZipShape(text) => body = Obj(Undefined, Undefined, Str(t))
      /\ \A i \in DOMAIN t :
           IsLastComma(t, i) /\ LeftOf(t, i) # << >> /\ ~IsZipShape(text) =>
             LET right == RightOf(t, i)
             IN  /\ IsTwoLettersThenZip(right) =>
                      body = Obj(Str(LeftOf(t, i)), Str(SubSeq(right, 1, 2)),
                                 Str(SubSeq(right, Len(right) - 4, Len(right))))
                 /\ IsTwoLetters(right) =>
                      body = Obj(Str(LeftOf(t, i)), Str(right), Undefined)
      /\ text = Zip80202 => body = Obj(Undefined, Undefined, Str(Zip80202))
      /\ text = Denver \o << ",", " " >> \o CO =>
           body = Obj(Str(Denver), Str(CO), Undefined)
      /\ text = Denver \o << ",", " " >> \o CO \o << " " >> \o Zip80202 =>
           body = Obj(Str(Denver), Str(CO), Str(Zip80202))

C18_Step ==
  /\ \A r \in WeatherReqs :
       WeatherSent(r) /\ page.selectedCity = << >> =>
         C18_Body(page.query, posts'[r].body)
  /\ ParseRejected =>
       /\ ~IsZipShape(page.query)
       /\ ~IsCityStateShape(page.query)
       /\ ~IsCityStateZipShape(page.query)

C18_TypedLocation == [][ C18_Step ]_vars

\* "a, b, CO" was split at its last comma, and "Denver,co<tab>80202" was
\* sent with the state in upper case and the zip apart
C18_Witness ==
  /\ posts[1].body = Obj(Str(<< "a", ",", " ", "b" >>), Str(CO), Undefined)
  /\ posts[2].body = Obj(Str(Denver), Str(CO), Str(Zip80202))
  /\ page.query = Denver \o << ",", "c", "o", "\t" >> \o Zip80202
  /\ posts[2].state = "inflight"

\* typed input of one of the three shapes
IsAcceptedShape(text) ==
  IsZipShape(text) \/ IsCityStateShape(text) \/ IsCityStateZipShape(text)

(***************************************************************************)
(* C19.  Typed input that has none of the three shapes (5 digits; a city,  *)
(* a comma and exactly 2 letters; a city, a comma, 2 letters, whitespace   *)
(* and 5 digits) fails to parse: the submit shows the error and sends no   *)
(* weather request.  So every weather request sent for typed input is for  *)
(* input of one of the shapes, and a submit of other input shows the parse *)
(* error.                                                                  *)
(***************************************************************************)
C19_Step ==
  /\ \A r \in WeatherReqs :
       WeatherSent(r) /\ page.selectedCity = << >> => IsAcceptedShape(page.query)
  /\ page'.loading /\ ~page.loading /\ page.selectedCity = << >> =>
       IsAcceptedShape(page.query)

C19_OtherInputRejected == [][ C19_Step ]_vars

(***************************************************************************)
(* C20.  The parser checks the state against the 51 codes: no weather      *)
(* request is sent for typed input "City, XX" or "City, XX 12345" whose XX *)
(* is two letters that are none of the codes, so the state of every body   *)
(* sent for typed input of these two shapes is one of the 51 codes.        *)
(***************************************************************************)
C20_Step ==
  \A r \in WeatherReqs :
    WeatherSent(r) /\ page.selectedCity = << >>
      /\ (IsCityStateShape(page.query) \/ IsCityStateZipShape(page.query)) =>
        /\ posts'[r].body.state.t = "string"
        /\ posts'[r].body.state.s \in US_STATES

C20_StateCodeKnown == [][ C20_Step ]_vars

(***************************************************************************)
(* C21.  Each route's cache changes only in the step in which a request's  *)
(* successful upstream call is answered, and only at that request's key.   *)
(* Every other end of a request (a hit, a validation failure, a missing    *)
(* credential, a non-2xx answer, a timeout, an empty or unparseable        *)
(* answer, another exception) and every step of the clock leave both       *)
(* caches as they are.  No step removes a key.  A request that finds a     *)
(* stale entry is not served it, and when its own call fails the stale     *)
(* entry is still there.                                                   *)
(***************************************************************************)
\* cache has become cache2 by no more than a change at key
C21_OnlyAt(cache, cache2, key) ==
  /\ DOMAIN cache \subseteq DOMAIN cache2
  /\ DOMAIN cache2 \subseteq DOMAIN cache \cup { key }
  /\ \A k \in DOMAIN cache \ { key } : cache2[k] = cache[k]

\* weather request r ends in this step otherwise than by a write
C21_WeatherEndsWithoutWrite(r) ==
  /\ ~Done(wreq[r]) /\ Done(wreq'[r])
  /\ wreq'[r].status # 200 \/ wreq'[r].cached

\* suggestion request r ends in this step otherwise than by a write
C21_SuggestEndsWithoutWrite(r) ==
  /\ ~Done(sreq[r]) /\ Done(sreq'[r])
  /\ sreq'[r].cause # "none"

C21_Step ==
  /\ DOMAIN weatherCache \subseteq DOMAIN weatherCache'
  /\ DOMAIN suggestCache \subseteq DOMAIN suggestCache'
  /\ weatherCache' # weatherCache =>
       \E r \in WeatherReqs :
         /\ C12_WeatherWrites(r)
         /\ C21_OnlyAt(weatherCache, weatherCache', wreq[r].cacheKey)
  /\ suggestCache' # suggestCache =>
       \E r \in SuggestReqs :
         /\ C12_SuggestWrites(r)
         /\ C21_OnlyAt(suggestCache, suggestCache', sreq[r].cacheKey)
  /\ \A r \in WeatherReqs :
       /\ C21_WeatherEndsWithoutWrite(r) => weatherCache' = weatherCache
       /\ Handled(r) /\ Accepted(wreq'[r])
            /\ wreq'[r].cacheKey \in DOMAIN weatherCache
            /\ now - weatherCache[wreq'[r].cacheKey].timestamp >= WEATHER_CACHE_TTL =>
              ~wreq'[r].cached /\ wreq'[r].report = << >>
  /\ \A r \in SuggestReqs :
       /\ C21_SuggestEndsWithoutWrite(r) => suggestCache' = suggestCache
       /\ SuggestHandled(r) /\ sreq'[r].cacheKey \in DOMAIN suggestCache
            /\ now - suggestCache[sreq'[r].cacheKey].timestamp >= SUGGEST_CACHE_TTL =>
              sreq'[r].cause # "hit" /\ sreq'[r].suggestions = << >>
  /\ now' # now => weatherCache' = weatherCache /\ suggestCache' = suggestCache

C21_CacheFrame == [][ C21_Step ]_vars

\* in each route a request found the entry stale, called the upstream and
\* failed, and the stale entry is still in the cache
C21_Witness ==
  /\ \E r \in WeatherReqs :
       /\ Done(wreq[r]) /\ wreq[r].calls = 1 /\ wreq[r].status # 200
       /\ wreq[r].cacheKey \in DOMAIN weatherCache
       /\ now - weatherCache[wreq[r].cacheKey].timestamp >= WEATHER_CACHE_TTL
  /\ \E r \in SuggestReqs :
       /\ Done(sreq[r]) /\ sreq[r].calls = 1 /\ sreq[r].cause # "none"
       /\ sreq[r].cacheKey \in DOMAIN suggestCache
       /\ now - suggestCache[sreq[r].cacheKey].timestamp >= SUGGEST_CACHE_TTL

(***************************************************************************)
(* C22.  A 2xx upstream answer without first-choice text (no choices, no   *)
(* message, or empty content) is answered by the weather route with an     *)
(* error status, 502, and leaves the cache as it is.  So no entry of the   *)
(* weather cache holds an empty report, and no 200 answer, computed or     *)
(* served from the cache, carries an empty report.                         *)
(***************************************************************************)
C22_NoEmptyReport ==
  /\ \A k \in DOMAIN weatherCache : weatherCache[k].data # << >>
  /\ \A r \in WeatherReqs :
       Done(wreq[r]) /\ wreq[r].status = 200 => wreq[r].report # << >>

C22_Step ==
  /\ C22_NoEmptyReport'
  /\ \A r \in WeatherReqs :
       ~Done(wreq[r]) /\ Done(wreq'[r]) /\ wreq'[r].cause = "empty" =>
         /\ wreq'[r].status = 502
         /\ wreq'[r].error = "No weather data received"
         /\ wreq'[r].report = << >>
         /\ weatherCache' = weatherCache

C22_EmptyAnswerIsAnError == [][ C22_Step ]_vars

\* an upstream call ended with a 2xx answer without text: the request was
\* answered 502 and its key has no entry
C22_Witness ==
  \E r \in WeatherReqs :
    /\ Done(wreq[r]) /\ wreq[r].cause = "empty" /\ wreq[r].status = 502
    /\ wreq[r].calls = 1
    /\ wreq[r].cacheKey \notin DOMAIN weatherCache

(***************************************************************************)
(* C23.  The weather cache key tells normalized locations apart.  Two      *)
(* accepted requests have the same key only if they have the same mode,    *)
(* the same lower-cased city, the same upper-cased state and the same zip, *)
(* an absent and an empty zip counting as the same, also when city or zip  *)
(* hold dashes.  So a hit is served the report of a request for the same   *)
(* normalized location.                                                    *)
(***************************************************************************)
\* the normalized location of an accepted body
C23_Location(body) ==
  IF body.zip.t = "string" /\ body.zip.s # << >>
       /\ ~(body.city.t = "string" /\ body.city.s # << >>)
  THEN [ mode |-> "zip", city |-> << >>, state |-> << >>, zip |-> body.zip.s ]
  ELSE [ mode |-> "city", city |-> toLowerCase(body.city.s),
         state |-> toUpperCase(body.state.s),
         zip |-> IF body.zip.t = "string" THEN body.zip.s ELSE << >> ]

C23_Step ==
  \A r \in WeatherReqs :
    Handled(r) /\ Accepted(wreq'[r]) =>
      /\ \A q \in WeatherReqs :
           Accepted(wreq[q]) /\ wreq[q].cacheKey = wreq'[r].cacheKey =>
             C23_Location(wreq[q].body) = C23_Location(wreq'[r].body)
      /\ wreq'[r].cached =>
           \E q \in WeatherReqs \ { r } :
             /\ C15_Wrote(q, wreq'[r].cacheKey, wreq'[r].report)
             /\ C23_Location(wreq[q].body) = C23_Location(wreq'[r].body)

C23_KeyInjective == [][ C23_Step ]_vars

\* two accepted requests whose keys differ though one's city and state read
\* like the other's city, state and zip
C23_Witness ==
  /\ Accepted(wreq[1]) /\ Accepted(wreq[2])
  /\ wreq[1].body = Obj(Str(<< "a", "-", "n", "v" >>), Str(<< "C", "A" >>), Undefined)
  /\ wreq[2].body = Obj(Str(<< "a" >>), Str(<< "N", "V" >>), Str(<< "c", "a" >>))
  /\ wreq[1].cacheKey # wreq[2].cacheKey
  /\ Done(wreq[1]) /\ Done(wreq[2]) /\ ~wreq[2].cached

(***************************************************************************)
(* C24.  In both routes the cache is looked up before the credential is    *)
(* examined.  A request whose key has a fresh entry is answered from the   *)
(* cache, by the weather route with status 200 and cached = true, whatever *)
(* the credential is and without an upstream call; a request is answered   *)
(* for want of the credential only after it missed the cache.              *)
(***************************************************************************)
C24_Weather(r) ==
  Handled(r) /\ Accepted(wreq'[r]) =>
    LET entry == CacheGet(weatherCache, wreq'[r].cacheKey)
    IN  /\ IsFresh(entry, now) =>
             /\ Done(wreq'[r])
             /\ wreq'[r].status = 200
             /\ wreq'[r].cached
             /\ wreq'[r].report = entry.data
             /\ wreq'[r].calls = 0
        /\ wreq'[r].cause = "credential" => ~IsFresh(entry, now)

C24_Suggest(r) ==
  SuggestHandled(r) /\ sreq'[r].cacheKey # << >> =>
    LET entry == CacheGet(suggestCache, sreq'[r].cacheKey)
    IN  /\ SuggestIsFresh(entry, now) =>
             /\ Done(sreq'[r])
             /\ sreq'[r].cause = "hit"
             /\ sreq'[r].status = 200
             /\ sreq'[r].suggestions = entry.data
             /\ sreq'[r].calls = 0
        /\ sreq'[r].cause = "credential" => ~SuggestIsFresh(entry, now)

C24_Step ==
  /\ \A r \in WeatherReqs : C24_Weather(r)
  /\ \A r \in SuggestReqs : C24_Suggest(r)

C24_LookupBeforeCredential == [][ C24_Step ]_vars

\* with no credential in the environment, a weather request and a suggestion
\* request were both answered from the cache
C24_Witness ==
  /\ apiKey = ""
  /\ Done(wreq[2]) /\ wreq[2].status = 200 /\ wreq[2].cached
  /\ wreq[2].calls = 0 /\ wreq[2].report = Sunny
  /\ Done(sreq[2]) /\ sreq[2].cause = "hit" /\ sreq[2].calls = 0
  /\ sreq[2].suggestions # << >>

(***************************************************************************)
(* C25.  The suggestion route caches a 2xx upstream answer that parses as  *)
(* a JSON array also when filtering leaves no valid entry: the empty list  *)
(* is stored under the request's key with the current timestamp, and every *)
(* request for the same query that finds that entry less than 24 hours old *)
(* is answered the empty list from the cache, without an upstream call.    *)
(***************************************************************************)
\* the upstream call of request r was answered an array that filtered to
\* the empty list
C25_AnsweredEmptyArray(r) ==
  /\ sreq[r].pc = "fetching"
  /\ Done(sreq'[r])
  /\ sreq'[r].cause = "none"
  /\ sreq'[r].suggestions = << >>

C25_Step ==
  \A r \in SuggestReqs :
    /\ C25_AnsweredEmptyArray(r) =>
         /\ suggestCache' = CacheSet(suggestCache, sreq[r].cacheKey, << >>, now)
         /\ CacheGet(suggestCache', sreq[r].cacheKey) =
              [ found |-> TRUE, data |-> << >>, timestamp |-> now ]
    /\ SuggestHandled(r) /\ sreq'[r].cacheKey # << >> =>
         LET entry == CacheGet(suggestCache, sreq'[r].cacheKey)
         IN  entry.found /\ entry.data = << >>
               /\ now - entry.timestamp < 24 * 60 * 60 * 1000 =>
                 /\ Done(sreq'[r])
                 /\ sreq'[r].status = 200
                 /\ sreq'[r].suggestions = << >>
                 /\ sreq'[r].cause = "hit"
                 /\ sreq'[r].calls = 0

C26_InFlight == { r \in WeatherReqs : posts[r].state = "inflight" }

C26_OneRequestAtATime ==
  /\ Cardinality(C26_InFlight) <= 1
  /\ page.loading <=> C26_InFlight # { }

(***************************************************************************)
(* C27.  The page's suggestLoading flag is true whenever a debounce timer  *)
(* is pending or a suggestion request that was not aborted is in flight    *)
(* for the current query, and false otherwise; the completion by abort of  *)
(* a superseded request does not clear the flag while the timer or the     *)
(* request of the newer query is outstanding.                              *)
(***************************************************************************)
\* a debounce timer is pending, or a request for the query in the input is
\* in flight
C27_Outstanding ==
  \/ timers # { }
  \/ \E r \in SuggestReqs :
       /\ gets[r].state = "inflight"
       /\ gets[r].q = Str(trim(page.query))

C27_LoadingTracksRequest == page.suggestLoading <=> C27_Outstanding

(***************************************************************************)
(* C28.  After the user has selected a suggestion, the dropdown stays      *)
(* hidden and the list of suggestions stays as it is until the input       *)
(* changes again, also when a suggestion request was in flight at the      *)
(* moment of the selection: the late response of that request neither      *)
(* reopens the dropdown nor replaces the list.                             *)
(***************************************************************************)
\* a suggestion is selected and the dropdown is closed: the selection was
\* the last thing the user did
C28_Selected(p) ==
  /\ p.selectedCity # << >> /\ p.selectedState # << >>
  /\ ~p.showSuggestions

C28_Step ==
  C28_Selected(page) /\ page'.selectedCity # << >> =>
    /\ ~page'.showSuggestions
    /\ page'.suggestions = page.suggestions

C28_DropdownStaysHidden == [][ C28_Step ]_vars

====
